---- MODULE Spec2Model ----
(***************************************************************************)
(* Trade-Pulse-Tracker: the reconnecting TCP client of the tick generator  *)
(* (packages/tick-generator/src/tcp-sender.ts), the TCP server of the      *)
(* ingestor (packages/ingestor/src/tcp-server.ts) and its message          *)
(* validator (packages/ingestor/src/message-validator.ts), the Kafka       *)
(* publisher (packages/ingestor/src/kafka-publisher.ts) and the ingestor   *)
(* service that wires them together, as state machines.                    *)
(*                                                                         *)
(* Every handler of the source is one action.  A socket is an environment  *)
(* object: its events (connect, error, close, data, timeout) are chosen    *)
(* nondeterministically in the orders Node's net.Socket can emit them, and *)
(* each event runs the handler the source registered for it.               *)
(***************************************************************************)
EXTENDS Integers, Sequences, FiniteSets

(***************************************************************************)
(* Bounds of the model.                                                    *)
(***************************************************************************)
\* config.maxReconnectAttempts of the TcpSender (a configuration value).
maxReconnectAttempts == 1
\* Number of net.Socket objects the TcpSender may create in one run: the
\* first connection, every capped reconnect, and one more.
MaxSockets == maxReconnectAttempts + 2
\* Number of sendTick calls in one run; record k is the k-th call's line.
MaxTicks == 2
\* Number of connections the TcpServer accepts in one run.
MaxClients == 2
\* Number of bytes all connections together deliver in one run.
MaxBytes == 4
\* Largest number of bytes one 'data' event carries.
MaxChunk == 2
\* config.tcp.maxConnections of the TcpServer (a configuration value; it is
\* at least 1, index.ts:59).
maxConnections == 1
\* Number of times server.listen() may fail to bind in one run.
MaxListenFailures == 2
\* Number of 'error' events a bound listener may emit in one run.
MaxListenerErrors == 2
\* config.kafka.retries: how often the producer sends a request again.
kafkaRetries == 1
\* maxReconnectAttempts of the KafkaPublisher (10 in kafka-publisher.ts:16).
kafkaMaxReconnectAttempts == 1
\* Number of publishTick calls made on a KafkaPublisher used on its own,
\* the test message of connect() included.
MaxCalls == 3
\* Number of records the IngestorService handles in one run.
MaxRecords == 2

VARIABLES
  \* ---- TcpSender (tcp-sender.ts:10-14) ----
  socket,             \* this.socket: 0 is null, else the id of a net.Socket
  reconnectAttempts,  \* this.reconnectAttempts
  isConnected,        \* this.isConnected
  reconnectTimer,     \* this.reconnectTimer # null
  messageQueue,       \* this.messageQueue
  \* ---- environment of the TcpSender ----
  sockState,          \* per created socket: what it may still emit
  sockEnded,          \* sockets on which end() was called
  socketsCreated,     \* number of net.Socket objects created so far
  written,            \* log of socket.write calls that returned: <<sock, rec>>
  ticksSent,          \* number of sendTick calls made so far
  capErrorLogged,     \* the last handler run logged "Max reconnection attempts reached"
  timerConnects,      \* connect() calls by the timer since the last 'connect'
  stopRequested,      \* disconnect() was called, connect() not since
  lastOp,             \* name of the handler or call that ran last
  \* ---- TcpServer (tcp-server.ts:18-25, 102) ----
  clients,            \* keys of this.clients
  messageCount,       \* client.messageCount of each session
  lineBuffer,         \* the `buffer` of each connection's handlers
  totalConnections,   \* this.totalConnections
  totalMessages,      \* this.totalMessages
  \* ---- IngestorService metrics touched by the message handler ----
  messagesReceived,   \* metrics.messagesReceived
  messagesFailed,     \* metrics.messagesFailed
  validationErrors,   \* sum of the metrics.validationErrors counters
  \* ---- environment of the TcpServer ----
  connPhase,          \* per connection: what its socket may still emit
  connErrored,        \* connections whose socket emitted 'error'
  connEnded,          \* connections on which the server called end()
  received,           \* per connection: all bytes delivered so far
  forwarded,          \* per connection: records given to the message handler
  disconnectLog,      \* per connection: runs of the cleanup of
                      \* handleClientDisconnection
  srvLastOp,          \* <<handler that ran last, its connection>>
  \* ---- TcpServer, the listener (tcp-server.ts:16,19) ----
  isListening,        \* this.isListening
  \* ---- environment of the listener ----
  srvHandle,          \* the net.Server: "none", "binding" (listen() called,
                      \* outcome pending) or "listening" (bound)
  restartTimers,      \* pending callbacks of the setTimeout of the 'error' handler
  listenFailures,     \* failed binds so far
  listenerErrors,     \* 'error' events of the bound listener so far
  everBound,          \* 'listening' was emitted at least once
  restartFailed,      \* the last step logged "Failed to restart TCP server"
  lsnLastOp,          \* name of the listener handler that ran last
  \* ---- MessageValidator (message-validator.ts:8-9) ----
  strictMode,         \* config.validation.strictMode
  lastPrices,         \* this.lastPrices: instrument -> last accepted price
  \* ---- the last call of validateMessage ----
  rawMessage,         \* its argument
  clock,              \* the value of Date.now() during the call
  result,             \* the ValidationResult it returned
  warned,             \* it logged the "Large price deviation" warning
  sentTick,           \* the PriceTick a TcpSender formatted into rawMessage
  \* ---- KafkaPublisher (kafka-publisher.ts:12-15) ----
  kafkaConnected,     \* this.isConnected
  publishCount,       \* this.publishCount
  errorCount,         \* this.errorCount
  kafkaReconnectAttempts, \* this.reconnectAttempts
  \* ---- environment of the KafkaPublisher ----
  connectPhase,       \* position of connect(): "none", "connecting" (awaiting
                      \* producer.connect()), "probing" (awaiting the test
                      \* message), "ready" (returned) or "failed" (threw)
  shutdownPhase,      \* position of shutdown(): "none", "grace" (awaiting its
                      \* timer) or "done"
  calls,              \* every publishTick call so far, in call order
  requestQueue,       \* the producer's requests not yet answered, oldest first
  kafkaLog,           \* the topic: the calls whose message was appended
  pubLastOp,          \* name of the publisher step that ran last
  \* ---- IngestorService (part_005:26-42) ----
  isRunning,          \* this.isRunning
  sequenceCounter,    \* this.sequenceCounter
  messagesProcessed,  \* metrics.messagesProcessed
  messagesPublished,  \* metrics.messagesPublished
  publishErrors,      \* metrics.publishErrors
  \* ---- environment of the IngestorService ----
  servicePhase,       \* position of start() and stop()
  handled,            \* every record given to handleMessage, in call order
  errorReplies,       \* per connection: "ERROR: ..." lines written to its socket
  tcpStopPhase,       \* position of TcpServer.stop(): "none", "waiting" (its
                      \* timer is pending), "closing" or "stopped"
  connectionsAtStop   \* totalConnections when TcpServer.stop() was called

senderVars == <<socket, reconnectAttempts, isConnected, reconnectTimer,
                messageQueue, sockState, sockEnded, socketsCreated, written,
                ticksSent, capErrorLogged, timerConnects, stopRequested, lastOp>>

serverVars == <<clients, messageCount, lineBuffer, totalConnections,
                totalMessages, messagesReceived, messagesFailed,
                validationErrors, connPhase, connErrored, connEnded, received,
                forwarded, disconnectLog, srvLastOp>>

listenerVars == <<isListening, srvHandle, restartTimers, listenFailures,
                  listenerErrors, everBound, restartFailed, lsnLastOp>>

validatorVars == <<strictMode, lastPrices, rawMessage, clock, result, warned,
                   sentTick>>

publisherVars == <<kafkaConnected, publishCount, errorCount,
                   kafkaReconnectAttempts, connectPhase, shutdownPhase, calls,
                   requestQueue, kafkaLog, pubLastOp>>

serviceVars == <<isRunning, sequenceCounter, messagesProcessed,
                 messagesPublished, publishErrors, servicePhase, handled,
                 errorReplies, tcpStopPhase, connectionsAtStop>>

vars == <<senderVars, serverVars, listenerVars, validatorVars, publisherVars,
          serviceVars>>

Sockets == 1..MaxSockets
Records == 1..MaxTicks
ClientIds == 1..MaxClients

(***************************************************************************)
(* TcpSender                                                               *)
(***************************************************************************)

\* Field initialisers and constructor: no socket, nothing queued.
SenderInit ==
  /\ socket = 0
  /\ reconnectAttempts = 0
  /\ isConnected = FALSE
  /\ reconnectTimer = FALSE
  /\ messageQueue = <<>>
  /\ sockState = [s \in Sockets |-> "unused"]
  /\ sockEnded = {}
  /\ socketsCreated = 0
  /\ written = <<>>
  /\ ticksSent = 0
  /\ capErrorLogged = FALSE
  /\ timerConnects = 0
  /\ stopRequested = FALSE
  /\ lastOp = "init"

\* handleDisconnection() without the check of the attempt cap.
HandleDisconnectionNoCap ==
  IF reconnectTimer
  THEN /\ capErrorLogged' = FALSE
       /\ UNCHANGED <<reconnectTimer, reconnectAttempts>>
  ELSE /\ reconnectAttempts' = reconnectAttempts + 1
       /\ reconnectTimer' = TRUE
       /\ capErrorLogged' = FALSE

\* handleDisconnection(): one pending timer at most, capped attempts; at the
\* cap it logs the error and schedules nothing.
HandleDisconnection ==
  IF reconnectTimer
  THEN /\ capErrorLogged' = FALSE
       /\ UNCHANGED <<reconnectTimer, reconnectAttempts>>
  ELSE IF reconnectAttempts >= maxReconnectAttempts
       THEN /\ capErrorLogged' = TRUE
            /\ UNCHANGED <<reconnectTimer, reconnectAttempts>>
       ELSE /\ reconnectAttempts' = reconnectAttempts + 1
            /\ reconnectTimer' = TRUE
            /\ capErrorLogged' = FALSE

\* flushMessageQueue() writing the newest queued message first.
FlushWritesNewestFirst(sock, connected, queue) ==
  IF sock # 0 /\ connected
  THEN [i \in 1..Len(queue) |-> <<sock, queue[Len(queue) + 1 - i]>>]
  ELSE <<>>

\* The writes of flushMessageQueue(): every queued message, in queue order,
\* to this.socket (the guard `this.socket && this.isConnected` is evaluated
\* per message; the caller has just set isConnected).
FlushWrites(sock, connected, queue) ==
  IF sock # 0 /\ connected
  THEN [i \in 1..Len(queue) |-> <<sock, queue[i]>>]
  ELSE <<>>

\* The body of connect(): a new net.Socket replaces this.socket and starts
\* connecting; its handlers are the Sock* actions below.
NewSocket ==
  /\ socketsCreated < MaxSockets
  /\ socketsCreated' = socketsCreated + 1
  /\ socket' = socketsCreated + 1
  /\ sockState' = [sockState EXCEPT ![socketsCreated + 1] = "connecting"]

\* connect() called by the owner of the TcpSender: at start, or again after
\* a disconnect().
Connect ==
  /\ lastOp' = "Connect"
  /\ UNCHANGED <<serverVars, listenerVars, validatorVars, publisherVars,
                 serviceVars>>
  /\ socket = 0 \/ stopRequested
  /\ NewSocket
  /\ stopRequested' = FALSE
  /\ capErrorLogged' = FALSE
  /\ UNCHANGED <<reconnectAttempts, isConnected, reconnectTimer, messageQueue,
                 sockEnded, written, ticksSent, timerConnects>>

\* The reconnect timer set by handleDisconnection() fires: it clears
\* reconnectTimer and calls connect().
ReconnectTimerFires ==
  /\ lastOp' = "ReconnectTimerFires"
  /\ UNCHANGED <<serverVars, listenerVars, validatorVars, publisherVars,
                 serviceVars>>
  /\ reconnectTimer
  /\ reconnectTimer' = FALSE
  /\ NewSocket
  /\ timerConnects' = timerConnects + 1
  /\ capErrorLogged' = FALSE
  /\ UNCHANGED <<reconnectAttempts, isConnected, messageQueue, sockEnded,
                 written, ticksSent, stopRequested>>

\* The 'connect' handler with a flush that does not empty the queue.
SockConnectKeepsQueue(s) ==
  /\ lastOp' = "SockConnect"
  /\ UNCHANGED <<serverVars, listenerVars, validatorVars, publisherVars,
                 serviceVars>>
  /\ sockState[s] = "connecting"
  /\ sockState' = [sockState EXCEPT ![s] = "open"]
  /\ isConnected' = TRUE
  /\ reconnectAttempts' = 0
  /\ written' = written \o FlushWrites(socket, TRUE, messageQueue)
  /\ timerConnects' = 0
  /\ capErrorLogged' = FALSE
  /\ UNCHANGED <<socket, reconnectTimer, sockEnded, socketsCreated, ticksSent,
                 stopRequested, messageQueue>>

\* 'connect' of socket s: mark connected, reset the attempt counter, flush.
SockConnect(s) ==
  /\ lastOp' = "SockConnect"
  /\ UNCHANGED <<serverVars, listenerVars, validatorVars, publisherVars,
                 serviceVars>>
  /\ sockState[s] = "connecting"
  /\ sockState' = [sockState EXCEPT ![s] = "open"]
  /\ isConnected' = TRUE
  /\ reconnectAttempts' = 0
  /\ written' = written \o FlushWrites(socket, TRUE, messageQueue)
  /\ messageQueue' = <<>>
  /\ timerConnects' = 0
  /\ capErrorLogged' = FALSE
  /\ UNCHANGED <<socket, reconnectTimer, sockEnded, socketsCreated, ticksSent,
                 stopRequested>>

\* 'error' of socket s (a failed connect or a failure of an open socket);
\* Node emits 'close' after it.
SockError(s) ==
  /\ lastOp' = "SockError"
  /\ UNCHANGED <<serverVars, listenerVars, validatorVars, publisherVars,
                 serviceVars>>
  /\ sockState[s] \in {"connecting", "open"}
  /\ sockState' = [sockState EXCEPT ![s] = "errored"]
  /\ isConnected' = FALSE
  /\ IF reconnectAttempts = 0
     THEN /\ capErrorLogged' = FALSE
          /\ UNCHANGED <<reconnectTimer, reconnectAttempts>>
     ELSE HandleDisconnection
  /\ UNCHANGED <<socket, messageQueue, sockEnded, socketsCreated, written,
                 ticksSent, timerConnects, stopRequested>>

\* 'close' of socket s: after its 'error', or when an open socket is closed
\* by the peer or after end().
SockClose(s) ==
  /\ lastOp' = "SockClose"
  /\ UNCHANGED <<serverVars, listenerVars, validatorVars, publisherVars,
                 serviceVars>>
  /\ sockState[s] \in {"open", "errored"}
  /\ sockState' = [sockState EXCEPT ![s] = "closed"]
  /\ isConnected' = FALSE
  /\ HandleDisconnection
  /\ UNCHANGED <<socket, messageQueue, sockEnded, socketsCreated, written,
                 ticksSent, timerConnects, stopRequested>>

\* sendTick(tick) whose socket.write returns.
SendTickWrite ==
  /\ lastOp' = "SendTickWrite"
  /\ UNCHANGED <<serverVars, listenerVars, validatorVars, publisherVars,
                 serviceVars>>
  /\ ticksSent < MaxTicks
  /\ ticksSent' = ticksSent + 1
  /\ isConnected /\ socket # 0
  /\ written' = Append(written, <<socket, ticksSent + 1>>)
  /\ capErrorLogged' = FALSE
  /\ UNCHANGED <<socket, reconnectAttempts, isConnected, reconnectTimer,
                 messageQueue, sockState, sockEnded, socketsCreated,
                 timerConnects, stopRequested>>

\* sendTick(tick) whose socket.write throws: the catch block queues the
\* message and calls handleDisconnection(); isConnected is left as it is.
SendTickWriteThrows ==
  /\ lastOp' = "SendTickWriteThrows"
  /\ UNCHANGED <<serverVars, listenerVars, validatorVars, publisherVars,
                 serviceVars>>
  /\ ticksSent < MaxTicks
  /\ ticksSent' = ticksSent + 1
  /\ isConnected /\ socket # 0
  /\ messageQueue' = Append(messageQueue, ticksSent + 1)
  /\ HandleDisconnection
  /\ UNCHANGED <<socket, isConnected, sockState, sockEnded, socketsCreated,
                 written, timerConnects, stopRequested>>

\* sendTick(tick) that drops the message once the reconnect cap is exhausted.
SendTickQueueDropsAtCap ==
  /\ lastOp' = "SendTickQueue"
  /\ UNCHANGED <<serverVars, listenerVars, validatorVars, publisherVars,
                 serviceVars>>
  /\ ticksSent < MaxTicks
  /\ ticksSent' = ticksSent + 1
  /\ ~(isConnected /\ socket # 0)
  /\ messageQueue' = IF reconnectAttempts >= maxReconnectAttempts
                     THEN messageQueue
                     ELSE Append(messageQueue, ticksSent + 1)
  /\ capErrorLogged' = FALSE
  /\ UNCHANGED <<socket, reconnectAttempts, isConnected, reconnectTimer,
                 sockState, sockEnded, socketsCreated, written,
                 timerConnects, stopRequested>>

\* sendTick(tick) while not connected: queue the message.
SendTickQueue ==
  /\ lastOp' = "SendTickQueue"
  /\ UNCHANGED <<serverVars, listenerVars, validatorVars, publisherVars,
                 serviceVars>>
  /\ ticksSent < MaxTicks
  /\ ticksSent' = ticksSent + 1
  /\ ~(isConnected /\ socket # 0)
  /\ messageQueue' = Append(messageQueue, ticksSent + 1)
  /\ capErrorLogged' = FALSE
  /\ UNCHANGED <<socket, reconnectAttempts, isConnected, reconnectTimer,
                 sockState, sockEnded, socketsCreated, written,
                 timerConnects, stopRequested>>

\* disconnect(): clear the timer, end() the socket.
Disconnect ==
  /\ lastOp' = "Disconnect"
  /\ UNCHANGED <<serverVars, listenerVars, validatorVars, publisherVars,
                 serviceVars>>
  /\ reconnectTimer' = FALSE
  /\ sockEnded' = IF socket # 0 THEN sockEnded \cup {socket} ELSE sockEnded
  /\ stopRequested' = TRUE
  /\ capErrorLogged' = FALSE
  /\ UNCHANGED <<socket, reconnectAttempts, isConnected, messageQueue,
                 sockState, socketsCreated, written, ticksSent, timerConnects>>

SenderNext ==
  \/ Connect
  \/ ReconnectTimerFires
  \/ \E s \in Sockets : SockConnect(s)
  \/ \E s \in Sockets : SockError(s)
  \/ \E s \in Sockets : SockClose(s)
  \/ SendTickWrite
  \/ SendTickWriteThrows
  \/ SendTickQueue
  \/ Disconnect

(***************************************************************************)
(* Properties of the TcpSender                                             *)
(***************************************************************************)

\* A step in which some socket reports 'connect'.
ConnectEventStep ==
  \E s \in Sockets : sockState[s] = "connecting" /\ sockState'[s] = "open"

\* C1: when the sender has written nothing yet (every sendTick so far was
\* made without a usable connection) and a socket reports 'connect', the
\* flush writes exactly the records of all sendTick calls so far to
\* this.socket, in call order, each once, and leaves the queue empty; after
\* a single connect() this.socket is the socket that connected.
C1_QueuedRecordsFlushedInOrder ==
  [][ (ConnectEventStep /\ written = <<>>) =>
        /\ written' = [i \in 1..ticksSent |-> <<socket, i>>]
        /\ messageQueue' = <<>>
        /\ socketsCreated = 1 => sockState'[socket] = "open" ]_vars

\* Witness of C1: one socket, its 'connect' ran last, and all MaxTicks
\* records, queued beforehand, are in the write log.
C1_Witness ==
  /\ lastOp = "SockConnect"
  /\ socketsCreated = 1
  /\ Len(written) = MaxTicks
  /\ MaxTicks >= 2
  /\ messageQueue = <<>>

\* C2: the write log lists the records in the order of their sendTick
\* calls: a record sent later is never written before one sent earlier.
C2_WritesInSendOrder ==
  \A i, j \in 1..Len(written) : i < j => written[i][2] < written[j][2]

C4_NoReconnectAfterStop ==
  stopRequested => (~reconnectTimer /\ lastOp # "ReconnectTimerFires")

\* C5: a sendTick call made while isConnected is false appends its record at
\* the tail of the queue, writes nothing and changes nothing else of the
\* sender; the call is possible (it returns) in every such state.
C5_SendWhileDisconnectedQueues ==
  /\ [][ (~isConnected /\ ticksSent' = ticksSent + 1) =>
           /\ messageQueue' = Append(messageQueue, ticksSent + 1)
           /\ written' = written
           /\ UNCHANGED <<socket, isConnected, reconnectAttempts,
                          reconnectTimer, sockState>> ]_vars
  /\ []((~isConnected /\ ticksSent < MaxTicks) => ENABLED SendTickQueue)

\* Witness of C5: the last call queued a record after the reconnect cap was
\* exhausted (no timer pending, every socket closed).
C5_Witness ==
  /\ lastOp = "SendTickQueue"
  /\ reconnectAttempts >= maxReconnectAttempts
  /\ ~reconnectTimer
  /\ \A s \in 1..socketsCreated : sockState[s] = "closed"
  /\ messageQueue # <<>>
  /\ messageQueue[Len(messageQueue)] = ticksSent

Bytes == {"a", "SP", "NL", "C3", "A9"}

\* The chunks one 'data' event may carry.
Chunks == UNION {[1..n -> Bytes] : n \in 1..MaxChunk}

\* data.toString(): UTF-8 decoding of one chunk on its own.  A lead byte
\* followed by its continuation byte is one character; a lead byte without
\* it, and a continuation byte without a lead, each decode to U+FFFD.
RECURSIVE Utf8ToString(_)
Utf8ToString(bytes) ==
  IF bytes = <<>> THEN <<>>
  ELSE IF Head(bytes) = "C3"
       THEN IF Len(bytes) >= 2 /\ bytes[2] = "A9"
            THEN <<"U+00E9">> \o Utf8ToString(SubSeq(bytes, 3, Len(bytes)))
            ELSE <<"U+FFFD">> \o Utf8ToString(Tail(bytes))
       ELSE IF Head(bytes) = "A9"
            THEN <<"U+FFFD">> \o Utf8ToString(Tail(bytes))
            ELSE <<Head(bytes)>> \o Utf8ToString(Tail(bytes))

\* String.prototype.indexOf('\n'): position of the first newline, 0 if none
\* (positions count from 1 here).
IndexOfNewline(str) ==
  IF \E i \in 1..Len(str) : str[i] = "NL"
  THEN CHOOSE i \in 1..Len(str) :
         str[i] = "NL" /\ \A j \in 1..(i - 1) : str[j] # "NL"
  ELSE 0

\* String.prototype.trim(): drop the whitespace at both ends.
RECURSIVE TrimStart(_)
TrimStart(str) ==
  IF str # <<>> /\ Head(str) \in {"SP", "NL"} THEN TrimStart(Tail(str)) ELSE str

RECURSIVE TrimEnd(_)
TrimEnd(str) ==
  IF str # <<>> /\ str[Len(str)] \in {"SP", "NL"}
  THEN TrimEnd(SubSeq(str, 1, Len(str) - 1))
  ELSE str

Trim(str) == TrimEnd(TrimStart(str))

\* The loop of the 'data' handler without the test `if (message.trim())`.
RECURSIVE ExtractMessagesKeepsBlank(_)
ExtractMessagesKeepsBlank(buf) ==
  LET newlineIndex == IndexOfNewline(buf) IN
  IF newlineIndex = 0
  THEN [rest |-> buf, msgs |-> <<>>]
  ELSE LET message == SubSeq(buf, 1, newlineIndex - 1)
           after == ExtractMessagesKeepsBlank(SubSeq(buf, newlineIndex + 1, Len(buf)))
       IN [rest |-> after.rest, msgs |-> <<Trim(message)>> \o after.msgs]

\* The while loop of the 'data' handler on the buffer `buf`: cut the prefix
\* before each newline, keep the trimmed prefix as a message unless it is
\* empty; `rest` is the buffer left when no newline remains.
RECURSIVE ExtractMessages(_)
ExtractMessages(buf) ==
  LET newlineIndex == IndexOfNewline(buf) IN
  IF newlineIndex = 0
  THEN [rest |-> buf, msgs |-> <<>>]
  ELSE LET message == SubSeq(buf, 1, newlineIndex - 1)
           after == ExtractMessages(SubSeq(buf, newlineIndex + 1, Len(buf)))
       IN [rest |-> after.rest,
           msgs |-> IF Trim(message) # <<>>
                    THEN <<Trim(message)>> \o after.msgs
                    ELSE after.msgs]

\* rawMessage.split('|').length in validateMessage.
PartCount(msg) == 1 + Cardinality({i \in 1..Len(msg) : msg[i] = "|"})

\* The messages of `msgs` that validateMessage rejects for their number of
\* parts (message-validator.ts:34-41).  A line over Bytes has one part.
FormatRejected(msgs) == {i \in 1..Len(msgs) : PartCount(msgs[i]) # 6}

\* Constructor: no session, counters at zero.
ServerInit ==
  /\ clients = {}
  /\ messageCount = [c \in ClientIds |-> 0]
  /\ lineBuffer = [c \in ClientIds |-> <<>>]
  /\ totalConnections = 0
  /\ totalMessages = 0
  /\ messagesReceived = 0
  /\ messagesFailed = 0
  /\ validationErrors = 0
  /\ connPhase = [c \in ClientIds |-> "none"]
  /\ connErrored = {}
  /\ connEnded = {}
  /\ received = [c \in ClientIds |-> <<>>]
  /\ forwarded = [c \in ClientIds |-> <<>>]
  /\ disconnectLog = [c \in ClientIds |-> 0]
  /\ srvLastOp = <<"init", 0>>

\* handleNewConnection(socket): a new session under a fresh id; its handlers
\* (setupClientEventHandlers) start with an empty buffer.
HandleNewConnection(ids) ==
  LET c == totalConnections + 1 IN
  /\ c \in ids
  /\ srvLastOp' = <<"HandleNewConnection", c>>
  /\ clients' = clients \cup {c}
  /\ totalConnections' = totalConnections + 1
  /\ messageCount' = [messageCount EXCEPT ![c] = 0]
  /\ lineBuffer' = [lineBuffer EXCEPT ![c] = <<>>]
  /\ connPhase' = [connPhase EXCEPT ![c] = "open"]
  /\ UNCHANGED <<totalMessages, messagesReceived, messagesFailed,
                 validationErrors, connErrored, connEnded, received, forwarded,
                 disconnectLog>>
  /\ UNCHANGED <<senderVars, listenerVars, validatorVars, publisherVars,
                 serviceVars>>

\* Number of bytes delivered so far on all connections.
RECURSIVE BytesReceived(_)
BytesReceived(cs) ==
  IF cs = {} THEN 0
  ELSE LET c == CHOOSE x \in cs : TRUE
       IN Len(received[c]) + BytesReceived(cs \ {c})

\* 'data' on connection c.  Unknown client: return.  Otherwise decode the
\* chunk, append it to the buffer, and pass every complete, non-blank line
\* to handleMessage, which counts it and calls the message handler
\* (IngestorService.handleMessage up to its validation result).
SocketData(c, chunk) ==
  /\ connPhase[c] = "open"
  /\ BytesReceived(ClientIds) + Len(chunk) <= MaxBytes
  /\ srvLastOp' = <<"SocketData", c>>
  /\ received' = [received EXCEPT ![c] = @ \o chunk]
  /\ IF c \notin clients
     THEN UNCHANGED <<lineBuffer, messageCount, totalMessages, forwarded,
                      messagesReceived, messagesFailed, validationErrors>>
     ELSE LET out == ExtractMessages(lineBuffer[c] \o Utf8ToString(chunk))
              n == Len(out.msgs)
              bad == Cardinality(FormatRejected(out.msgs))
          IN /\ lineBuffer' = [lineBuffer EXCEPT ![c] = out.rest]
             /\ messageCount' = [messageCount EXCEPT ![c] = @ + n]
             /\ totalMessages' = totalMessages + n
             /\ forwarded' = [forwarded EXCEPT ![c] = @ \o out.msgs]
             /\ messagesReceived' = messagesReceived + n
             /\ messagesFailed' = messagesFailed + bad
             /\ validationErrors' = validationErrors + bad
  /\ UNCHANGED <<clients, totalConnections, connPhase, connErrored, connEnded,
                 disconnectLog>>
  /\ UNCHANGED <<senderVars, listenerVars, validatorVars, publisherVars,
                 serviceVars>>

\* handleClientDisconnection without the early return for a session that is
\* already gone.
HandleClientDisconnectionUnguarded(c) ==
  /\ clients' = clients \ {c}
  /\ disconnectLog' = [disconnectLog EXCEPT ![c] = @ + 1]
  /\ UNCHANGED forwarded

\* handleClientDisconnection that hands the unfinished line of the buffer to
\* the message handler as a last record.
HandleClientDisconnectionFlushesBuffer(c) ==
  IF c \notin clients
  THEN UNCHANGED <<clients, disconnectLog, forwarded>>
  ELSE /\ clients' = clients \ {c}
       /\ disconnectLog' = [disconnectLog EXCEPT ![c] = @ + 1]
       /\ forwarded' = IF Trim(lineBuffer[c]) # <<>>
                       THEN [forwarded EXCEPT ![c] = Append(@, Trim(lineBuffer[c]))]
                       ELSE forwarded

\* handleClientDisconnection(clientId, reason): nothing for an unknown
\* session; otherwise log, delete the session, destroy the socket.  The
\* message handler is not called.
HandleClientDisconnection(c) ==
  IF c \notin clients
  THEN UNCHANGED <<clients, disconnectLog, forwarded>>
  ELSE /\ clients' = clients \ {c}
       /\ disconnectLog' = [disconnectLog EXCEPT ![c] = @ + 1]
       /\ UNCHANGED forwarded

\* 'error' on connection c; the socket is destroyed and 'close' follows.
SocketError(c) ==
  /\ connPhase[c] = "open"
  /\ srvLastOp' = <<"SocketError", c>>
  /\ connPhase' = [connPhase EXCEPT ![c] = "destroyed"]
  /\ connErrored' = connErrored \cup {c}
  /\ HandleClientDisconnection(c)
  /\ UNCHANGED <<messageCount, lineBuffer, totalConnections, totalMessages,
                 messagesReceived, messagesFailed, validationErrors, connEnded,
                 received>>
  /\ UNCHANGED <<senderVars, listenerVars, validatorVars, publisherVars,
                 serviceVars>>

\* 'close' on connection c (hadError after an 'error'): the last event of
\* the socket.
SocketClose(c) ==
  /\ connPhase[c] \in {"open", "destroyed"}
  /\ srvLastOp' = <<"SocketClose", c>>
  /\ connPhase' = [connPhase EXCEPT ![c] = "closed"]
  /\ HandleClientDisconnection(c)
  /\ UNCHANGED <<messageCount, lineBuffer, totalConnections, totalMessages,
                 messagesReceived, messagesFailed, validationErrors,
                 connErrored, connEnded, received>>
  /\ UNCHANGED <<senderVars, listenerVars, validatorVars, publisherVars,
                 serviceVars>>

\* 'timeout' on connection c: the handler calls socket.end().
SocketTimeout(c) ==
  /\ connPhase[c] = "open"
  /\ srvLastOp' = <<"SocketTimeout", c>>
  /\ connEnded' = connEnded \cup {c}
  /\ UNCHANGED <<clients, messageCount, lineBuffer, totalConnections,
                 totalMessages, messagesReceived, messagesFailed,
                 validationErrors, connPhase, connErrored, received, forwarded,
                 disconnectLog>>
  /\ UNCHANGED <<senderVars, listenerVars, validatorVars, publisherVars,
                 serviceVars>>

\* The chunks of the lifecycle specification: lines of letters only.
LineChunks == {chunk \in Chunks : \A i \in 1..Len(chunk) : chunk[i] \in {"a", "NL"}}

\* One step of the TcpServer with connections `ids`, whose clients send
\* chunks of `chunks`.
ServerStep(ids, chunks) ==
  \/ HandleNewConnection(ids)
  \/ \E c \in ids, chunk \in chunks : SocketData(c, chunk)
  \/ \E c \in ids : SocketError(c)
  \/ \E c \in ids : SocketClose(c)
  \/ \E c \in ids : SocketTimeout(c)

\* Several connections, plain lines.
ServerNext == ServerStep(ClientIds, LineChunks)

\* One connection, every byte sequence and every split of it into chunks.
FramerNext == ServerStep({1}, Chunks)

(***************************************************************************)
(* Properties of the TcpServer                                             *)
(***************************************************************************)

\* C7: on every connection the records forwarded so far are those of the
\* bytes received so far taken as one chunk, however the bytes were split
\* into 'data' events.
C7_FramingIndependentOfSplit ==
  \A c \in ClientIds :
    forwarded[c] = ExtractMessages(Utf8ToString(received[c])).msgs

\* C8: in every step after which a session is not in the active set (its
\* teardown and every later step) nothing is forwarded for it: the bytes
\* left in its buffer never become a record.
C8_PartialLineNeverForwarded ==
  [][ \A c \in ClientIds :
        c \notin clients' =>
          /\ forwarded'[c] = forwarded[c]
          /\ messageCount'[c] = messageCount[c] ]_vars

\* Witness of C8: session 1 was torn down by the last event, after a record
\* of it was forwarded, with an unfinished non-blank line in its buffer.
C8_Witness ==
  /\ srvLastOp \in {<<"SocketClose", 1>>, <<"SocketError", 1>>}
  /\ 1 \notin clients
  /\ disconnectLog[1] = 1
  /\ Trim(lineBuffer[1]) # <<>>
  /\ forwarded[1] # <<>>

\* The bytes the step delivered on connection c.
NewBytes(c) == SubSeq(received'[c], Len(received[c]) + 1, Len(received'[c]))

\* Number of complete lines of `text` with a character that is no
\* whitespace: the newlines before which, on the same line, such a
\* character stands.
NonBlankLines(text) ==
  Cardinality({i \in 1..Len(text) :
    /\ text[i] = "NL"
    /\ \E j \in 1..(i - 1) :
         /\ text[j] \notin {"SP", "NL"}
         /\ \A k \in j..(i - 1) : text[k] # "NL"})

\* C9: a 'data' event raises the session's message count, the total message
\* count, the number of forwarded records and messagesReceived by the
\* number of its complete lines that are not blank, and the failure
\* counters by no more; a line that is empty after trimming counts nowhere.
C9_BlankLinesCountNowhere ==
  [][ \A c \in ClientIds :
        srvLastOp' = <<"SocketData", c>> /\ received'[c] # received[c] =>
          LET n == NonBlankLines(lineBuffer[c] \o Utf8ToString(NewBytes(c)))
          IN /\ Len(forwarded'[c]) = Len(forwarded[c]) + n
             /\ messageCount'[c] = messageCount[c] + n
             /\ totalMessages' = totalMessages + n
             /\ messagesReceived' = messagesReceived + n
             /\ messagesFailed' <= messagesFailed + n
             /\ validationErrors' <= validationErrors + n
             /\ \A i \in 1..Len(forwarded'[c]) : Trim(forwarded'[c][i]) # <<>> ]_vars

\* Witness of C9: after a counted line, a blank line arrived in a later
\* 'data' event and the counters still stand at one.
C9_Witness ==
  /\ srvLastOp = <<"SocketData", 1>>
  /\ received[1] = <<"a", "NL", "SP", "NL">>
  /\ lineBuffer[1] = <<>>
  /\ totalMessages = 1
  /\ messageCount[1] = 1
  /\ messagesReceived = 1
  /\ messagesFailed = 1

\* Number of cleanup runs of handleClientDisconnection over all sessions.
RECURSIVE TotalDisconnects(_)
TotalDisconnects(cs) ==
  IF cs = {} THEN 0
  ELSE LET c == CHOOSE x \in cs : TRUE
       IN disconnectLog[c] + TotalDisconnects(cs \ {c})

\* The state of the TcpServer and of the metrics behind its handler.
serverState == <<clients, messageCount, lineBuffer, totalConnections,
                 totalMessages, forwarded, disconnectLog, messagesReceived,
                 messagesFailed, validationErrors>>

\* C10: (a) the cleanup of a session runs at most once; (b) the number of
\* active sessions is the number accepted minus the number of cleanups;
\* (c) a signal for a session that is already removed changes nothing of
\* the server's state.
C10_TeardownIdempotent ==
  /\ [](\A c \in ClientIds : disconnectLog[c] <= 1)
  /\ [](Cardinality(clients) = totalConnections - TotalDisconnects(ClientIds))
  /\ [][ \A c \in ClientIds :
           (/\ connPhase[c] # "none"
            /\ c \notin clients
            /\ srvLastOp'[2] = c) => UNCHANGED serverState ]_vars

\* Witness of C10: session 1 got timeout, error and close, was removed once,
\* and session 2 is still active.
C10_Witness ==
  /\ srvLastOp = <<"SocketClose", 1>>
  /\ connPhase[1] = "closed"
  /\ 1 \in connErrored
  /\ 1 \in connEnded
  /\ disconnectLog[1] = 1
  /\ clients = {2}
  /\ totalConnections = 2

\* C11: the TcpServer never holds more sessions at one time than
\* config.tcp.maxConnections allows.
C11_SessionsWithinLimit == Cardinality(clients) <= maxConnections

\* 'close' on a socket the server destroyed: emitted by the socket itself,
\* whatever the peer does.
DestroyedSocketCloses(c) == connPhase[c] = "destroyed" /\ SocketClose(c)

\* C12: once the idle timeout of a session has fired, the session is
\* eventually removed from the active set, the peer doing nothing more, and
\* the handler of the timeout leaves every other session as it was.
C12_IdleSessionTornDown ==
  /\ \A c \in ClientIds : (c \in connEnded /\ c \in clients) ~> (c \notin clients)
  /\ [][\A c \in ClientIds : srvLastOp' = <<"SocketTimeout", c>> =>
          /\ clients' \ {c} = clients \ {c}
          /\ \A d \in ClientIds \ {c} : connPhase'[d] = connPhase[d]]_vars

(***************************************************************************)
(* TcpServer: the listener                                                 *)
(***************************************************************************)

\* Constructor: net.createServer(), nothing bound, isListening = false.
ListenerInit ==
  /\ isListening = FALSE
  /\ srvHandle = "none"
  /\ restartTimers = 0
  /\ listenFailures = 0
  /\ listenerErrors = 0
  /\ everBound = FALSE
  /\ restartFailed = FALSE
  /\ lsnLastOp = "init"

\* start() with this.isListening = listening on a net.Server in state
\* handle.  Listening: resolved at once.  Otherwise the executor registers
\* the once-handlers and calls server.listen(), which throws
\* ERR_SERVER_ALREADY_LISTEN when the server already has a handle: the
\* promise is rejected and nothing else happens.
Start(listening, handle) ==
  IF listening THEN [handle |-> handle, rejected |-> FALSE]
  ELSE IF handle # "none" THEN [handle |-> handle, rejected |-> TRUE]
       ELSE [handle |-> "binding", rejected |-> FALSE]

\* The handler of the server's 'error' event: isListening = false, and a
\* timer of 5000 ms for the restart.
ServerErrorHandler ==
  /\ isListening' = FALSE
  /\ restartTimers' = restartTimers + 1

\* The owner (IngestorService.start) calls start() once.
StartService ==
  /\ lsnLastOp = "init"
  /\ lsnLastOp' = "StartService"
  /\ srvHandle' = Start(isListening, srvHandle).handle
  /\ UNCHANGED <<isListening, restartTimers, listenFailures, listenerErrors,
                 everBound, restartFailed>>
  /\ UNCHANGED <<senderVars, serverVars, validatorVars, publisherVars,
                 serviceVars>>

\* The bind succeeds: 'listening' runs the handler of line 37 and resolves
\* the start() that is waiting.
ListenSucceeds ==
  /\ srvHandle = "binding"
  /\ lsnLastOp' = "ListenSucceeds"
  /\ srvHandle' = "listening"
  /\ isListening' = TRUE
  /\ everBound' = TRUE
  /\ restartFailed' = FALSE
  /\ UNCHANGED <<restartTimers, listenFailures, listenerErrors>>
  /\ UNCHANGED <<senderVars, serverVars, validatorVars, publisherVars,
                 serviceVars>>

\* The bind fails (EADDRINUSE ...): the net.Server drops its handle and emits
\* 'error'; the handler of line 48 runs, and the once-handler rejects the
\* start() that is waiting, which a restart logs as failed.
ListenFails ==
  /\ srvHandle = "binding"
  /\ listenFailures < MaxListenFailures
  /\ lsnLastOp' = "ListenFails"
  /\ srvHandle' = "none"
  /\ listenFailures' = listenFailures + 1
  /\ ServerErrorHandler
  /\ restartFailed' = (lsnLastOp = "RestartTimerFires")
  /\ UNCHANGED <<listenerErrors, everBound>>
  /\ UNCHANGED <<senderVars, serverVars, validatorVars, publisherVars,
                 serviceVars>>

\* 'error' of the bound listener (a failed accept): the net.Server keeps its
\* handle and goes on listening; the handler of line 48 runs.
ListenerError ==
  /\ srvHandle = "listening"
  /\ listenerErrors < MaxListenerErrors
  /\ lsnLastOp' = "ListenerError"
  /\ listenerErrors' = listenerErrors + 1
  /\ ServerErrorHandler
  /\ restartFailed' = FALSE
  /\ UNCHANGED <<srvHandle, listenFailures, everBound>>
  /\ UNCHANGED <<senderVars, serverVars, validatorVars, publisherVars,
                 serviceVars>>

\* The callback of the setTimeout of the 'error' handler: if not listening,
\* start(), whose rejection is logged.
RestartTimerFires ==
  /\ restartTimers > 0
  /\ lsnLastOp' = "RestartTimerFires"
  /\ restartTimers' = restartTimers - 1
  /\ IF ~isListening
     THEN /\ srvHandle' = Start(isListening, srvHandle).handle
          /\ restartFailed' = Start(isListening, srvHandle).rejected
     ELSE /\ restartFailed' = FALSE
          /\ UNCHANGED srvHandle
  /\ UNCHANGED <<isListening, listenFailures, listenerErrors, everBound>>
  /\ UNCHANGED <<senderVars, serverVars, validatorVars, publisherVars,
                 serviceVars>>

\* The listener and the sessions it accepts while it is bound.
ListenerNext ==
  \/ StartService
  \/ ListenSucceeds
  \/ ListenFails
  \/ ListenerError
  \/ RestartTimerFires
  \/ (srvHandle = "listening" /\ HandleNewConnection(ClientIds))
  \/ \E c \in ClientIds : SocketClose(c)

\* C13: once the listener has been bound, whenever the server is not
\* listening a restart is on its way: the timer of the 'error' handler is
\* pending or a listen() is in progress.  So every listener error is followed
\* by a restart attempt, and every failed attempt by another one.
C13_RestartPendingUntilListening ==
  (everBound /\ ~isListening) => (restartTimers > 0 \/ srvHandle = "binding")

(***************************************************************************)
(* MessageValidator                                                        *)
(*                                                                         *)
(* A string is a sequence of characters; "SP" is the blank and "NL" the    *)
(* newline.  Times are whole seconds: every time constant of the source is *)
(* a whole number of seconds, written in milliseconds there, and the       *)
(* checks on times are integer comparisons.  Prices are whole numbers, so  *)
(* the arithmetic on them is exact.                                        *)
(***************************************************************************)

\* config.validation.maxTimestampAge (index.ts:41, 300000 ms).
maxTimestampAge == 300
\* The allowance for timestamps ahead of the clock (line 196, 60000 ms).
maxFutureSkew == 60
\* new Date('2020-01-01').getTime() and new Date('2030-01-01').getTime()
\* (lines 178-179), in seconds.
minTimestamp == 1577836800
maxTimestamp == 1893456000
\* config.validation.maxPriceDeviation (index.ts:40, 0.1) in percent.
maxPriceDeviationPercent == 10

DigitChars == <<"0", "1", "2", "3", "4", "5", "6", "7", "8", "9">>
Digits == {DigitChars[i] : i \in 1..10}
IsDigit(c) == c \in Digits
DigitValue == [c \in Digits |-> (CHOOSE i \in 1..10 : DigitChars[i] = c) - 1]

LowerCase == <<"a", "b", "c", "d">>
UpperCase == <<"A", "B", "C", "D">>

\* Number.prototype.toString() of a whole number n >= 0.
RECURSIVE ToString(_)
ToString(n) ==
  IF n < 10 THEN <<DigitChars[n + 1]>>
  ELSE ToString(n \div 10) \o <<DigitChars[(n % 10) + 1]>>

\* Array.prototype.join('|').
RECURSIVE Join(_)
Join(fields) ==
  IF Len(fields) = 0 THEN <<>>
  ELSE IF Len(fields) = 1 THEN fields[1]
       ELSE fields[1] \o <<"|">> \o Join(Tail(fields))

\* rawMessage.replace(/\r?\n/g, '').
RemoveNewlines(str) == SelectSeq(str, LAMBDA c : c # "NL")

\* String.prototype.split('|'): the pieces between the separators; a string
\* without separator, the empty one too, is one piece.
RECURSIVE Split(_)
Split(str) ==
  IF str = <<>> THEN << <<>> >>
  ELSE LET rest == Split(Tail(str)) IN
       IF Head(str) = "|"
       THEN << <<>> >> \o rest
       ELSE << <<Head(str)>> \o Head(rest) >> \o Tail(rest)

\* The value of the digits at the front of str, after the digits that gave
\* acc.
RECURSIVE DigitsValue(_, _)
DigitsValue(str, acc) ==
  IF str # <<>> /\ IsDigit(Head(str))
  THEN DigitsValue(Tail(str), acc * 10 + DigitValue[Head(str)])
  ELSE acc

\* parseInt(str, 10): the whole number written at the front of str (a sign,
\* then digits), whatever follows it; NaN when no digit is there.
ParseInt(str) ==
  LET negative == str # <<>> /\ Head(str) = "-"
      digits == IF negative THEN Tail(str) ELSE str
  IN IF digits = <<>> \/ ~IsDigit(Head(digits))
     THEN [isNaN |-> TRUE]
     ELSE [isNaN |-> FALSE,
           value |-> IF negative THEN 0 - DigitsValue(digits, 0)
                     ELSE DigitsValue(digits, 0)]

\* parseFloat(str).  The strings of the model have no '.', no exponent and
\* no "Infinity", so it reads what parseInt reads.
ParseFloat(str) == ParseInt(str)

\* String.prototype.toUpperCase().
ToUpperCase(str) ==
  [i \in 1..Len(str) |->
     IF \E k \in 1..Len(LowerCase) : LowerCase[k] = str[i]
     THEN UpperCase[CHOOSE k \in 1..Len(LowerCase) : LowerCase[k] = str[i]]
     ELSE str[i]]

\* /^[A-Z0-9.=]+$/i
IsRicChar(c) ==
  \/ IsDigit(c)
  \/ c \in {".", "="}
  \/ \E k \in 1..Len(UpperCase) : c = UpperCase[k] \/ c = LowerCase[k]

\* What a field validator returns and pushes: `value` is there unless it
\* returned undefined; `errors` is what it appended to the error list.
Returned(r) == "value" \in DOMAIN r

\* validateRic(ricStr, errors)
ValidateRic(ricStr) ==
  LET ric == Trim(ricStr) IN
  IF ric = <<>> THEN [errors |-> <<"RIC is required and cannot be empty">>]
  ELSE IF Len(ric) < 2 THEN [errors |-> <<"RIC too short">>]
  ELSE IF Len(ric) > 20 THEN [errors |-> <<"RIC too long">>]
  ELSE IF \E i \in 1..Len(ric) : ~IsRicChar(ric[i])
       THEN [errors |-> <<"Invalid RIC format">>]
       ELSE [value |-> ToUpperCase(ric), errors |-> <<>>]

\* validatePrice(priceStr, 'price', errors)
ValidatePrice(priceStr) ==
  LET price == ParseFloat(Trim(priceStr)) IN
  IF Trim(priceStr) = <<>>
  THEN [errors |-> <<"price is required and cannot be empty">>]
  ELSE IF price.isNaN THEN [errors |-> <<"Invalid price: must be a valid number">>]
  ELSE IF price.value <= 0
       THEN [errors |-> <<"Invalid price: must be greater than 0">>]
  ELSE IF price.value > 1000000
       THEN [errors |-> <<"Invalid price: suspiciously high value">>]
       ELSE [value |-> price.value, errors |-> <<>>]

\* validateTimestamp(timestampStr, errors) with Date.now() = now
ValidateTimestamp(timestampStr, now) ==
  LET timestamp == ParseInt(Trim(timestampStr)) IN
  IF Trim(timestampStr) = <<>>
  THEN [errors |-> <<"Timestamp is required and cannot be empty">>]
  ELSE IF timestamp.isNaN
       THEN [errors |-> <<"Invalid timestamp: must be a valid Unix timestamp">>]
  ELSE IF timestamp.value < minTimestamp \/ timestamp.value > maxTimestamp
       THEN [errors |-> <<"Invalid timestamp: must be between 2020 and 2030">>]
  ELSE IF now - timestamp.value > maxTimestampAge
       THEN [errors |-> <<"Timestamp too old">>]
  ELSE IF timestamp.value > now + maxFutureSkew
       THEN [errors |-> <<"Timestamp too far in future">>]
       ELSE [value |-> timestamp.value, errors |-> <<>>]

\* validateOptionalNumber(valueStr, fieldName, errors)
ValidateOptionalNumber(valueStr, fieldName) ==
  LET value == ParseFloat(Trim(valueStr)) IN
  IF Trim(valueStr) = <<>> THEN [errors |-> <<>>]
  ELSE IF value.isNaN
       THEN [errors |-> <<"Invalid optional field: must be a valid number or empty">>]
  ELSE IF value.value < 0
       THEN [errors |-> <<"Invalid optional field: cannot be negative">>]
  ELSE IF fieldName = "volume" /\ value.value > 1000000000
       THEN [errors |-> <<"Invalid volume: suspiciously high volume">>]
  ELSE IF fieldName \in {"bid", "ask"} /\ value.value > 1000000
       THEN [errors |-> <<"Invalid bid or ask: suspiciously high price">>]
       ELSE [value |-> value.value, errors |-> <<>>]

\* The PriceTick of lines 68-75: the optional fields are there only when
\* their validators returned a value.
PriceTick(ric, price, timestamp, volume, bid, ask) ==
  LET keys == {"ric", "price", "timestamp"}
                \cup (IF Returned(volume) THEN {"volume"} ELSE {})
                \cup (IF Returned(bid) THEN {"bid"} ELSE {})
                \cup (IF Returned(ask) THEN {"ask"} ELSE {})
  IN [k \in keys |->
        CASE k = "ric" -> ric.value
          [] k = "price" -> price.value
          [] k = "timestamp" -> timestamp.value
          [] k = "volume" -> volume.value
          [] k = "bid" -> bid.value
          [] k = "ask" -> ask.value]

\* tick.f !== undefined
Has(tick, f) == f \in DOMAIN tick

\* Rules 1 and 2 without Rule 2.
SpreadErrorsBidAboveAskOnly(tick) ==
  IF Has(tick, "bid") /\ Has(tick, "ask") /\ tick.bid > tick.ask
  THEN <<"Invalid bid/ask spread">>
  ELSE <<>>

\* Rules 1 and 2 of validateBusinessRules: bid above ask, and price outside
\* [bid, ask], each only when both sides are there.
SpreadErrors(tick) ==
  (IF Has(tick, "bid") /\ Has(tick, "ask") /\ tick.bid > tick.ask
   THEN <<"Invalid bid/ask spread">>
   ELSE <<>>)
  \o (IF Has(tick, "bid") /\ Has(tick, "ask")
         /\ (tick.price < tick.bid \/ tick.price > tick.ask)
      THEN <<"Price outside bid/ask spread">>
      ELSE <<>>)

\* The deviation test with >= for >.
DeviatesFromThreshold(price, lastPrice) ==
  IF price >= lastPrice
  THEN (price - lastPrice) * 100 >= maxPriceDeviationPercent * lastPrice
  ELSE (lastPrice - price) * 100 >= maxPriceDeviationPercent * lastPrice

\* Math.abs(price - lastPrice) / lastPrice > maxPriceDeviation, for
\* lastPrice > 0, both sides multiplied by 100 * lastPrice.
Deviates(price, lastPrice) ==
  IF price >= lastPrice
  THEN (price - lastPrice) * 100 > maxPriceDeviationPercent * lastPrice
  ELSE (lastPrice - price) * 100 > maxPriceDeviationPercent * lastPrice

\* Rule 3 rejecting in either mode.
DeviationErrorsInEitherMode(tick, prices, strict) ==
  IF tick.ric \in DOMAIN prices /\ Deviates(tick.price, prices[tick.ric])
  THEN <<"Suspicious price change">>
  ELSE <<>>

\* Rule 3 of validateBusinessRules: a deviation from the last price of the
\* instrument above the threshold is an error in strict mode, and a warning
\* on the console otherwise.
DeviationErrors(tick, prices, strict) ==
  IF tick.ric \in DOMAIN prices /\ Deviates(tick.price, prices[tick.ric])
     /\ strict
  THEN <<"Suspicious price change">>
  ELSE <<>>

\* Rule 3, the other branch: whether console.warn is called.
DeviationWarned(tick, prices, strict) ==
  tick.ric \in DOMAIN prices /\ Deviates(tick.price, prices[tick.ric])
    /\ ~strict

\* Rule 4 of validateBusinessRules: a volume of zero is an error in strict
\* mode.
VolumeErrors(tick, strict) ==
  IF Has(tick, "volume") /\ tick.volume = 0 /\ strict
  THEN <<"Zero volume trades are not allowed in strict mode">>
  ELSE <<>>

\* validateBusinessRules(tick, errors) on an empty error list.
ValidateBusinessRules(tick, prices, strict) ==
  SpreadErrors(tick) \o DeviationErrors(tick, prices, strict)
    \o VolumeErrors(tick, strict)

\* Map.prototype.set
MapSet(map, key, value) ==
  [k \in DOMAIN map \cup {key} |-> IF k = key THEN value ELSE map[k]]

\* The update of the price tracking done whatever the error list holds.
UpdatePriceTrackingAlways(prices, tick, errors) ==
  MapSet(prices, tick.ric, tick.price)

\* A price tracking that keeps the first accepted price of an instrument.
UpdatePriceTrackingKeepsFirst(prices, tick, errors) ==
  IF errors = <<>> /\ tick.ric \notin DOMAIN prices
  THEN MapSet(prices, tick.ric, tick.price)
  ELSE prices

\* Lines 81-84: the price of the tick becomes the last price of its
\* instrument if the error list is empty.
UpdatePriceTracking(prices, tick, errors) ==
  IF errors = <<>> THEN MapSet(prices, tick.ric, tick.price) ELSE prices

\* Lines 44-90 of validateMessage, on the six parts of the message: the
\* field validators in order, the early return on their errors, the tick,
\* the business rules, the price tracking and the result; `warned` tells
\* whether the business rules wrote their warning.
ValidateParts(parts, now, prices, strict) ==
  LET ric == ValidateRic(parts[1])
      price == ValidatePrice(parts[2])
      timestamp == ValidateTimestamp(parts[3], now)
      volume == ValidateOptionalNumber(parts[4], "volume")
      bid == ValidateOptionalNumber(parts[5], "bid")
      ask == ValidateOptionalNumber(parts[6], "ask")
      fieldErrors == ric.errors \o price.errors \o timestamp.errors
                       \o volume.errors \o bid.errors \o ask.errors
  IN IF fieldErrors # <<>>
     THEN [result |-> [isValid |-> FALSE, errors |-> fieldErrors],
           lastPrices |-> prices, warned |-> FALSE]
     ELSE LET tick == PriceTick(ric, price, timestamp, volume, bid, ask)
              errors == ValidateBusinessRules(tick, prices, strict)
          IN [result |-> IF errors = <<>>
                         THEN [isValid |-> TRUE, tick |-> tick, errors |-> errors]
                         ELSE [isValid |-> FALSE, errors |-> errors],
              lastPrices |-> UpdatePriceTracking(prices, tick, errors),
              warned |-> DeviationWarned(tick, prices, strict)]

\* validateMessage that validates the first six parts of any message, a
\* missing part read as the empty string.
ValidateMessageAnyPartCount(raw, now, prices, strict) ==
  LET parts == Split(Trim(RemoveNewlines(raw)))
  IN ValidateParts([i \in 1..6 |-> IF i <= Len(parts) THEN parts[i] ELSE <<>>],
                   now, prices, strict)

\* validateMessage(raw) with Date.now() = now, this.lastPrices = prices and
\* config.validation.strictMode = strict: the ValidationResult it returns
\* and this.lastPrices after it.  Nothing in the try block throws on a
\* string, so the catch block is never entered.
ValidateMessage(raw, now, prices, strict) ==
  LET cleanMessage == Trim(RemoveNewlines(raw))
      parts == Split(cleanMessage)
  IN IF cleanMessage = <<>>
     THEN [result |-> [isValid |-> FALSE, errors |-> <<"Empty message received">>],
           lastPrices |-> prices, warned |-> FALSE]
     ELSE IF Len(parts) # 6
          THEN [result |-> [isValid |-> FALSE,
                            errors |-> <<"Invalid message format">>],
                lastPrices |-> prices, warned |-> FALSE]
          ELSE ValidateParts(parts, now, prices, strict)

\* The field strings of the messages.
RicFields == {<<"A", "B">>, <<"c", "d">>}
PriceFields == {ToString(10), ToString(11), ToString(12)}
VolumeFields == {<<>>, ToString(0)}
QuoteFields == {<<>>, ToString(10), ToString(12)}

\* A time at which every timestamp of the window lies between 2020 and 2030.
QuoteClock == minTimestamp + maxTimestampAge + 1

\* Messages with every combination of instrument, price, volume and quote,
\* stamped with the time of the clock, and messages that are blank, have
\* one or two bad fields, or have five or seven parts.
QuoteMessages ==
  {Join(<<ric, price, ToString(QuoteClock), volume, bid, ask>>) :
     ric \in RicFields, price \in PriceFields, volume \in VolumeFields,
     bid \in QuoteFields, ask \in QuoteFields}
  \cup {<<>>, <<"SP">>,
        Join(<<<<>>, ToString(10), ToString(QuoteClock), <<>>, <<>>, <<>>>>),
        Join(<<<<"A", "B">>, ToString(0), ToString(QuoteClock), <<>>, <<>>,
               <<"x">>>>),
        Join(<<<<"A", "B">>, ToString(10), ToString(QuoteClock), <<>>, <<>>>>),
        Join(<<<<"A", "B">>, ToString(10), ToString(QuoteClock), <<>>, <<>>,
               <<>>, <<>>>>)}

\* Clock values: inside 2020-2030, at the end of 2030's bound, and after it.
Clocks == {QuoteClock, maxTimestamp, maxTimestamp + 1,
           maxTimestamp + maxTimestampAge + 1}

\* The timestamps around the window of each clock value.
TimestampFields ==
  {ToString(now + d) : now \in Clocks,
     d \in {0 - maxTimestampAge - 1, 0 - maxTimestampAge, 0, maxFutureSkew,
            maxFutureSkew + 1}}
  \cup {<<>>, <<"x">>}

\* Bare ticks of one instrument with the timestamps around the windows.
TimedMessages ==
  {Join(<<<<"A", "B">>, price, timestamp, <<>>, <<>>, <<>>>>) :
     price \in {ToString(10), ToString(12)}, timestamp \in TimestampFields}

\* new Map()
EmptyMap == [k \in {} |-> 0]

\* A validator with the default configuration (index.ts:39): permissive,
\* no price tracked; no call made yet.
ValidatorInit ==
  /\ strictMode = FALSE
  /\ lastPrices = EmptyMap
  /\ rawMessage = <<>>
  /\ clock = 0
  /\ result = [isValid |-> FALSE, errors |-> <<>>]
  /\ warned = FALSE
  /\ sentTick = EmptyMap

\* new MessageValidator(config) with config.validation.strictMode = strict,
\* before the first call of validateMessage.
NewMessageValidator(strict) ==
  /\ clock = 0
  /\ strictMode' = strict
  /\ lastPrices' = EmptyMap
  /\ UNCHANGED <<rawMessage, clock, result, warned, sentTick>>
  /\ UNCHANGED <<senderVars, serverVars, listenerVars, publisherVars,
                 serviceVars>>

\* One call validateMessage(raw) at time now, with a message of `messages`
\* and a clock value of `clocks`.
ValidateMessageCall(messages, clocks) ==
  \E raw \in messages, now \in clocks :
    LET out == ValidateMessage(raw, now, lastPrices, strictMode) IN
    /\ rawMessage' = raw
    /\ clock' = now
    /\ result' = out.result
    /\ lastPrices' = out.lastPrices
    /\ warned' = out.warned
    /\ UNCHANGED <<strictMode, sentTick>>
    /\ UNCHANGED <<senderVars, serverVars, listenerVars, publisherVars,
                 serviceVars>>

\* One step of a MessageValidator fed messages of `messages` at times of
\* `clocks`.
ValidateStep(messages, clocks) ==
  \/ \E strict \in BOOLEAN : NewMessageValidator(strict)
  \/ ValidateMessageCall(messages, clocks)

\* The validator fed quotes at one time.
ValidatorNext == ValidateStep(QuoteMessages, {QuoteClock})

\* The validator fed bare ticks at several times.
ClockNext == ValidateStep(TimedMessages, Clocks)

(***************************************************************************)
(* formatTick of the TcpSender (tcp-sender.ts:96-105) followed by          *)
(* validateMessage of the ingestor.                                        *)
(***************************************************************************)
\* The optional fields of a PriceTick.
OptionalFields == {"volume", "bid", "ask"}

\* A PriceTick of the sender; an optional field given as -1 is undefined.
SenderTick(ric, price, timestamp, volume, bid, ask) ==
  LET given == [volume |-> volume, bid |-> bid, ask |-> ask]
      keys == {"ric", "price", "timestamp"}
                \cup {f \in OptionalFields : given[f] # -1}
  IN [k \in keys |->
        CASE k = "ric" -> ric
          [] k = "price" -> price
          [] k = "timestamp" -> timestamp
          [] OTHER -> given[k]]

\* The ticks a sender formats: both letter cases, two prices, the time of
\* the clock, and every optional field undefined, zero or positive.
SentTicks ==
  {SenderTick(ric, price, timestamp, volume, bid, ask) :
     ric \in RicFields, price \in {10, 12}, timestamp \in {QuoteClock},
     volume \in {-1, 0, 5}, bid \in {-1, 0, 10}, ask \in {-1, 0, 12}}

\* An optional field written only when it is truthy.
OptionalToStringIfTruthy(tick, f) ==
  IF Has(tick, f) /\ tick[f] # 0 THEN ToString(tick[f]) ELSE <<>>

\* tick.f?.toString() || '': the digits of a field that is there ("0" for
\* zero, a string that is not empty and so truthy), '' for undefined.
OptionalToString(tick, f) ==
  LET str == IF Has(tick, f) THEN ToString(tick[f]) ELSE <<>>
  IN IF str = <<>> THEN <<>> ELSE str

\* formatTick(tick)
FormatTick(tick) ==
  Join(<<tick.ric, ToString(tick.price), ToString(tick.timestamp),
         OptionalToString(tick, "volume"), OptionalToString(tick, "bid"),
         OptionalToString(tick, "ask")>>)

\* A sender formats a tick and the validator of the ingestor is called with
\* the line, at time now.
FormatTickValidated(ticks, clocks) ==
  \E tick \in ticks, now \in clocks :
    LET raw == FormatTick(tick)
        out == ValidateMessage(raw, now, lastPrices, strictMode) IN
    /\ sentTick' = tick
    /\ rawMessage' = raw
    /\ clock' = now
    /\ result' = out.result
    /\ lastPrices' = out.lastPrices
    /\ warned' = out.warned
    /\ UNCHANGED strictMode
    /\ UNCHANGED <<senderVars, serverVars, listenerVars, publisherVars,
                 serviceVars>>

\* A validator of either mode fed the lines of a sender.
CodecNext ==
  \/ \E strict \in BOOLEAN : NewMessageValidator(strict)
  \/ FormatTickValidated(SentTicks, {QuoteClock})

(***************************************************************************)
(* Properties of the MessageValidator                                      *)
(***************************************************************************)

\* The message raw as validateMessage cuts it.
MessageParts(raw) == Split(Trim(RemoveNewlines(raw)))
\* Its instrument, and the number its i-th field spells.
MessageRic(raw) == ToUpperCase(Trim(MessageParts(raw)[1]))
MessageNumber(raw, i) == ParseInt(Trim(MessageParts(raw)[i]))

\* The call that returned res found nothing wrong, or nothing but the
\* deviation of the price.
OnlyDeviationFound(res) == res.errors \in {<<>>, <<"Suspicious price change">>}

\* The step is a call of validateMessage: the clock of the last call is
\* set by nothing else.
ValidateMessageReturns == clock' # 0

\* C14: a call of validateMessage that returns isValid = true sets the last
\* price of the tick's instrument to the tick's price and leaves the entry
\* of every other instrument as it was; a call that returns isValid = false
\* leaves the whole map as it was.
C14_PriceTrackedOnlyOnAcceptance ==
  [][ValidateMessageReturns =>
       IF result'.isValid
       THEN /\ DOMAIN lastPrices' = DOMAIN lastPrices \cup {result'.tick.ric}
            /\ lastPrices'[result'.tick.ric] = result'.tick.price
            /\ \A r \in DOMAIN lastPrices \ {result'.tick.ric} :
                 lastPrices'[r] = lastPrices[r]
       ELSE lastPrices' = lastPrices]_vars

\* Two instruments are tracked, and the last message, for one of them, was
\* rejected by a business rule: its price is not the tracked one.
C14_Witness ==
  /\ Cardinality(DOMAIN lastPrices) = 2
  /\ ~result.isValid
  /\ result.errors = <<"Price outside bid/ask spread">>
  /\ lastPrices[MessageRic(rawMessage)] # MessageNumber(rawMessage, 2).value

C16_PermissiveAcceptsAnyDeviation ==
  [][(ValidateMessageReturns /\ ~strictMode /\ OnlyDeviationFound(result')) =>
       /\ result'.isValid
       /\ MessageRic(rawMessage') \in DOMAIN lastPrices'
       /\ lastPrices'[MessageRic(rawMessage')]
            = MessageNumber(rawMessage', 2).value]_vars

\* Permissive mode: the last message deviated by more than the threshold (the
\* warning was written), was accepted, and its price is the tracked one.
C16_Witness ==
  /\ ~strictMode
  /\ warned
  /\ result.isValid
  /\ lastPrices[result.tick.ric] = result.tick.price

\* C17: in either mode an accepted tick with bid and ask has bid <= price <=
\* ask, and a message whose bid is above its ask is rejected.
C17_PriceWithinSpread ==
  /\ (result.isValid /\ Has(result.tick, "bid") /\ Has(result.tick, "ask")) =>
       /\ result.tick.bid <= result.tick.price
       /\ result.tick.price <= result.tick.ask
  /\ (/\ Len(MessageParts(rawMessage)) = 6
      /\ ~MessageNumber(rawMessage, 5).isNaN
      /\ ~MessageNumber(rawMessage, 6).isNaN
      /\ MessageNumber(rawMessage, 5).value > MessageNumber(rawMessage, 6).value)
       => ~result.isValid

\* An accepted tick with both sides and the price strictly between them.
C17_Witness ==
  /\ result.isValid
  /\ Has(result.tick, "bid")
  /\ Has(result.tick, "ask")
  /\ result.tick.bid < result.tick.price
  /\ result.tick.price < result.tick.ask

\* C18: an accepted tick with a bid has bid <= price, and one with an ask
\* has ask >= price, whether or not the other side is there.
C18_EachSideBoundsPrice ==
  result.isValid =>
    /\ Has(result.tick, "bid") => result.tick.bid <= result.tick.price
    /\ Has(result.tick, "ask") => result.tick.ask >= result.tick.price

\* The errors of validateTimestamp.
TimestampErrors ==
  {"Timestamp is required and cannot be empty",
   "Invalid timestamp: must be a valid Unix timestamp",
   "Invalid timestamp: must be between 2020 and 2030",
   "Timestamp too old", "Timestamp too far in future"}

\* C19: whatever the time of the call, a message whose timestamp field is a
\* whole number passes the timestamp check exactly when
\* now - maxTimestampAge <= timestamp <= now + 60 s.
C19_TimestampWindow ==
  (Len(MessageParts(rawMessage)) = 6 /\ ~MessageNumber(rawMessage, 3).isNaN) =>
    ((\A i \in 1..Len(result.errors) : result.errors[i] \notin TimestampErrors)
       <=> /\ clock - maxTimestampAge <= MessageNumber(rawMessage, 3).value
           /\ MessageNumber(rawMessage, 3).value <= clock + maxFutureSkew)

\* C20: every call of validateMessage returns either isValid = true with a
\* tick and no error, or isValid = false with no tick and at least one
\* error; for a message that has not exactly six parts it returns the
\* second, its one error being that of the message as a whole.
C20_ResultWellFormed ==
  [][ValidateMessageReturns =>
       /\ \/ result'.isValid /\ Has(result', "tick") /\ result'.errors = <<>>
          \/ ~result'.isValid /\ ~Has(result', "tick") /\ result'.errors # <<>>
       /\ PartCount(rawMessage') # 6 =>
            /\ ~result'.isValid
            /\ ~Has(result', "tick")
            /\ result'.errors \in {<<"Empty message received">>,
                                   <<"Invalid message format">>}]_vars

\* The last message had seven parts and was rejected as a whole.
C20_Witness ==
  /\ PartCount(rawMessage) = 7
  /\ result = [isValid |-> FALSE, errors |-> <<"Invalid message format">>]

(***************************************************************************)
(* KafkaPublisher                                                          *)
(*                                                                         *)
(* The kafkajs producer is an environment object.  It is created with      *)
(* maxInFlightRequests 1 and idempotent false (kafka-publisher.ts:42-46):  *)
(* its requests are answered one at a time, oldest first; a request that   *)
(* fails with a retriable error is sent again, behind the requests made    *)
(* meanwhile, at most config.retries times (kafka-publisher.ts:30-35), and *)
(* then its send() rejects; a request that fails with any other error      *)
(* rejects at once.                                                        *)
(***************************************************************************)

\* Instrument keys of the published ticks, and the key of the test message
\* of testConnection (kafka-publisher.ts:115).
TickKeys == {<<"A", "B">>, <<"C", "D">>}
TestKey == <<"T", "E", "S", "T">>

\* Failures of producer.send(): a lost connection, a connection timeout, a
\* message the broker refuses for its size.  The first two are retriable.
SendErrors == {"network", "timeout", "tooLarge"}
Retriable(kind) == kind \in {"network", "timeout"}

\* error.message of each failure; "notConnected" is the error of line 134.
ErrorMessage(kind) ==
  CASE kind = "network" ->
         <<"C", "o", "n", "n", "e", "c", "t", "i", "o", "n", "SP", "e", "r",
         "r", "o", "r">>
    [] kind = "timeout" ->
         <<"C", "o", "n", "n", "e", "c", "t", "i", "o", "n", "SP", "t", "i",
         "m", "e", "o", "u", "t">>
    [] kind = "tooLarge" ->
         <<"M", "e", "s", "s", "a", "g", "e", "SP", "t", "o", "o", "SP",
         "l", "a", "r", "g", "e">>
    [] kind = "notConnected" ->
         <<"K", "a", "f", "k", "a", "SP", "p", "r", "o", "d", "u", "c", "e",
         "r", "SP", "i", "s", "SP", "n", "o", "t", "SP", "c", "o",
         "n", "n", "e", "c", "t", "e", "d">>

\* String.prototype.includes
Includes(str, sub) ==
  \E i \in 1..(Len(str) - Len(sub) + 1) : SubSeq(str, i, i + Len(sub) - 1) = sub

\* A classification that sends every failure to handleConnectionError.
IsConnectionErrorAlways(errorMessage) == TRUE

\* The test of line 189: the message mentions 'Connection' or 'timeout'.
IsConnectionError(errorMessage) ==
  \/ Includes(errorMessage, <<"C", "o", "n", "n", "e", "c", "t", "i", "o", "n">>)
  \/ Includes(errorMessage, <<"t", "i", "m", "e", "o", "u", "t">>)

\* Constructor and field initialisers: not connected, nothing published.
PublisherInit ==
  /\ kafkaConnected = FALSE
  /\ publishCount = 0
  /\ errorCount = 0
  /\ kafkaReconnectAttempts = 0
  /\ connectPhase = "none"
  /\ shutdownPhase = "none"
  /\ calls = <<>>
  /\ requestQueue = <<>>
  /\ kafkaLog = <<>>
  /\ pubLastOp = "init"

\* maxReconnectAttempts of the KafkaPublisher as the source sets it.
kafkaReconnectCap == 10

\* The delay without its ceiling.
ReconnectDelayUncapped(attempts) == 1000 * (2 ^ attempts)

\* The delay of handleConnectionError before its attempt number `attempts`:
\* Math.min(1000 * Math.pow(2, attempts), 30000).
ReconnectDelay(attempts) ==
  IF 1000 * (2 ^ attempts) < 30000 THEN 1000 * (2 ^ attempts) ELSE 30000

\* The catch block of publishTick for a call that failed with `kind` while
\* this.reconnectAttempts = attempts.  A connection error goes to
\* handleConnectionError, which returns at once at the cap and otherwise
\* counts the attempt and waits for its timer; every other failure, and the
\* capped one, is thrown at once as KAFKA_PUBLISH_ERROR.
Catch(call, kind, attempts) ==
  LET backoff == /\ IsConnectionError(ErrorMessage(kind))
                 /\ attempts < kafkaMaxReconnectAttempts
  IN [call |-> [call EXCEPT
                  !.status = IF backoff THEN "backoff" ELSE "raised",
                  !.error = kind,
                  !.backedOff = backoff,
                  !.delay = IF backoff THEN ReconnectDelay(attempts + 1) ELSE 0,
                  !.raised = IF backoff THEN "none" ELSE "KAFKA_PUBLISH_ERROR"],
      reconnectAttempts |-> IF backoff THEN attempts + 1 ELSE attempts]

\* publishTick that puts its call in front of the earlier ones.
PublishTickNewestFirst(key, test, rec, connected, attempts) ==
  LET call == [key |-> key, test |-> test, record |-> rec,
               status |-> "sending", attempts |-> 0, error |-> "none",
               backedOff |-> FALSE, delay |-> 0, raised |-> "none",
               shutdown |-> shutdownPhase]
      caught == Catch(call, "notConnected", attempts)
  IN IF ~connected
     THEN [call |-> caught.call,
           calls |-> <<caught.call>> \o calls,
           requestQueue |-> requestQueue,
           errorCount |-> errorCount + 1,
           reconnectAttempts |-> caught.reconnectAttempts]
     ELSE [call |-> call,
           calls |-> <<call>> \o calls,
           requestQueue |-> Append(requestQueue, Len(calls) + 1),
           errorCount |-> errorCount,
           reconnectAttempts |-> attempts]

\* publishTick(tick, isTestMessage) up to its first await, for a tick with
\* key `key` that handleMessage made from record `rec` (0: another caller),
\* while this.isConnected = connected and this.reconnectAttempts = attempts.
\* Not connected: the error of line 134 goes to the catch block.  Connected:
\* the message is built and producer.send() is called.  The call notes the
\* position of shutdown() at which it was made.
PublishTick(key, test, rec, connected, attempts) ==
  LET call == [key |-> key, test |-> test, record |-> rec,
               status |-> "sending", attempts |-> 0, error |-> "none",
               backedOff |-> FALSE, delay |-> 0, raised |-> "none",
               shutdown |-> shutdownPhase]
      caught == Catch(call, "notConnected", attempts)
  IN IF ~connected
     THEN [call |-> caught.call,
           calls |-> Append(calls, caught.call),
           requestQueue |-> requestQueue,
           errorCount |-> errorCount + 1,
           reconnectAttempts |-> caught.reconnectAttempts]
     ELSE [call |-> call,
           calls |-> Append(calls, call),
           requestQueue |-> Append(requestQueue, Len(calls) + 1),
           errorCount |-> errorCount,
           reconnectAttempts |-> attempts]

\* The session fields of the TcpServer: all but metrics.messagesFailed.
sessionVars == <<clients, messageCount, lineBuffer, totalConnections,
                 totalMessages, messagesReceived, validationErrors, connPhase,
                 connErrored, connEnded, received, forwarded, disconnectLog,
                 srvLastOp>>

\* The service fields that no continuation of a publishTick call touches.
serviceRest == <<isRunning, sequenceCounter, handled, errorReplies,
                 tcpStopPhase, connectionsAtStop>>

\* handleProcessingError that counts no publish error.
HandleProcessingErrorCountsFailureOnly(errorType) ==
  /\ messagesFailed' = messagesFailed + 1
  /\ UNCHANGED publishErrors

\* handleProcessingError that counts the failed message twice.
HandleProcessingErrorCountsTwice(errorType) ==
  /\ messagesFailed' = messagesFailed + 2
  /\ publishErrors' = IF errorType = "KAFKA_PUBLISH_ERROR"
                      THEN publishErrors + 1
                      ELSE publishErrors

\* handleProcessingError(rawMessage, error): one more failed message, and
\* one more publish error if the error is a KAFKA_PUBLISH_ERROR.
HandleProcessingError(errorType) ==
  /\ messagesFailed' = messagesFailed + 1
  /\ publishErrors' = IF errorType = "KAFKA_PUBLISH_ERROR"
                      THEN publishErrors + 1
                      ELSE publishErrors

\* The resumption of a start() that ignores the outcome of connect().
ResumesStartsAnyway(call) ==
  LET ok == call.status = "resolved" IN
  /\ connectPhase' = IF call.test
                     THEN (IF ok THEN "ready" ELSE "failed")
                     ELSE connectPhase
  /\ servicePhase' = IF call.test /\ servicePhase = "connecting"
                     THEN "metrics"
                     ELSE servicePhase
  /\ IF call.record = 0
     THEN UNCHANGED <<messagesProcessed, messagesPublished, publishErrors,
                      messagesFailed>>
     ELSE IF ok
          THEN /\ messagesProcessed' = messagesProcessed + 1
               /\ messagesPublished' = messagesPublished + 1
               /\ UNCHANGED <<publishErrors, messagesFailed>>
          ELSE /\ HandleProcessingError(call.raised)
               /\ UNCHANGED <<messagesProcessed, messagesPublished>>

\* The code that awaited a call resumes once the call has resolved or
\* raised.  The test message: connect() returns or throws, and with it the
\* start() that awaited it goes on to the metrics exporter or throws.  A
\* tick of handleMessage: the success metrics, or handleProcessingError.
Resumes(call) ==
  LET ok == call.status = "resolved" IN
  /\ connectPhase' = IF call.test
                     THEN (IF ok THEN "ready" ELSE "failed")
                     ELSE connectPhase
  /\ servicePhase' = IF call.test /\ servicePhase = "connecting"
                     THEN (IF ok THEN "metrics" ELSE "failed")
                     ELSE servicePhase
  /\ IF call.record = 0
     THEN UNCHANGED <<messagesProcessed, messagesPublished, publishErrors,
                      messagesFailed>>
     ELSE IF ok
          THEN /\ messagesProcessed' = messagesProcessed + 1
               /\ messagesPublished' = messagesPublished + 1
               /\ UNCHANGED <<publishErrors, messagesFailed>>
          ELSE /\ HandleProcessingError(call.raised)
               /\ UNCHANGED <<messagesProcessed, messagesPublished>>

\* The call is still awaited.
Awaits ==
  UNCHANGED <<connectPhase, servicePhase, messagesProcessed,
              messagesPublished, publishErrors, messagesFailed>>

\* connect() is called by the owner of the publisher: it awaits
\* producer.connect().
KafkaConnect ==
  /\ connectPhase = "none"
  /\ servicePhase = "new"
  /\ pubLastOp' = "Connect"
  /\ connectPhase' = "connecting"
  /\ UNCHANGED <<kafkaConnected, publishCount, errorCount,
                 kafkaReconnectAttempts, shutdownPhase, calls, requestQueue,
                 kafkaLog>>
  /\ UNCHANGED <<senderVars, serverVars, listenerVars, validatorVars,
                 serviceVars>>

\* producer.connect() succeeds: the 'producer.connect' handler runs, then
\* connect() sends its test message with publishTick.
ProducerConnects ==
  /\ connectPhase = "connecting"
  /\ pubLastOp' = "ProducerConnects"
  /\ kafkaConnected' = TRUE
  /\ LET out == PublishTick(TestKey, TRUE, 0, TRUE, 0) IN
     /\ calls' = out.calls
     /\ requestQueue' = out.requestQueue
     /\ errorCount' = out.errorCount
     /\ kafkaReconnectAttempts' = out.reconnectAttempts
  /\ connectPhase' = "probing"
  /\ UNCHANGED <<publishCount, shutdownPhase, kafkaLog>>
  /\ UNCHANGED <<senderVars, serverVars, listenerVars, validatorVars,
                 serviceVars>>

\* producer.connect() fails: connect() throws KAFKA_CONNECTION_ERROR, and so
\* does the start() that awaited it.
ProducerConnectFails ==
  /\ connectPhase = "connecting"
  /\ pubLastOp' = "ProducerConnectFails"
  /\ connectPhase' = "failed"
  /\ servicePhase' = IF servicePhase = "connecting" THEN "failed"
                     ELSE servicePhase
  /\ UNCHANGED <<kafkaConnected, publishCount, errorCount,
                 kafkaReconnectAttempts, shutdownPhase, calls, requestQueue,
                 kafkaLog>>
  /\ UNCHANGED <<messagesProcessed, messagesPublished, publishErrors,
                 serviceRest>>
  /\ UNCHANGED <<senderVars, serverVars, listenerVars, validatorVars>>

\* publishTick(tick) called by a user of the publisher other than
\* handleMessage, after the connect() it awaited has returned or thrown.
PublishTickCall(key) ==
  /\ Len(calls) < MaxCalls
  /\ connectPhase \in {"ready", "failed"}
  /\ pubLastOp' = "PublishTick"
  /\ LET out == PublishTick(key, FALSE, 0, kafkaConnected,
                            kafkaReconnectAttempts) IN
     /\ calls' = out.calls
     /\ requestQueue' = out.requestQueue
     /\ errorCount' = out.errorCount
     /\ kafkaReconnectAttempts' = out.reconnectAttempts
  /\ UNCHANGED <<kafkaConnected, publishCount, connectPhase, shutdownPhase,
                 kafkaLog>>
  /\ UNCHANGED <<senderVars, serverVars, listenerVars, validatorVars,
                 serviceVars>>

\* The oldest request is answered: its message is in the log, send()
\* resolves, publishTick counts the publish and returns.
SendDelivered ==
  /\ requestQueue # <<>>
  /\ kafkaConnected
  /\ pubLastOp' = "SendDelivered"
  /\ LET p == Head(requestQueue)
         call == [calls[p] EXCEPT !.status = "resolved"]
     IN /\ calls' = [calls EXCEPT ![p] = call]
        /\ kafkaLog' = Append(kafkaLog, p)
        /\ Resumes(call)
  /\ requestQueue' = Tail(requestQueue)
  /\ publishCount' = publishCount + 1
  /\ UNCHANGED <<kafkaConnected, errorCount, kafkaReconnectAttempts,
                 shutdownPhase>>
  /\ UNCHANGED serviceRest
  /\ UNCHANGED <<senderVars, sessionVars, listenerVars, validatorVars>>

\* The oldest request fails with a retriable error and the producer has
\* retries left: it sends the request again, behind the requests made since.
SendRetried ==
  /\ requestQueue # <<>>
  /\ LET p == Head(requestQueue) IN
     /\ calls[p].attempts < kafkaRetries
     /\ calls' = [calls EXCEPT ![p].attempts = @ + 1]
     /\ requestQueue' = Append(Tail(requestQueue), p)
  /\ pubLastOp' = "SendRetried"
  /\ UNCHANGED <<kafkaConnected, publishCount, errorCount,
                 kafkaReconnectAttempts, connectPhase, shutdownPhase, kafkaLog>>
  /\ UNCHANGED <<senderVars, serverVars, listenerVars, validatorVars,
                 serviceVars>>

\* send() rejects with `kind`: a retriable error after the last retry, any
\* other error at once.  The catch block of publishTick runs.
SendRejects(kind) ==
  /\ requestQueue # <<>>
  /\ pubLastOp' = "SendRejects"
  /\ LET p == Head(requestQueue)
         caught == Catch(calls[p], kind, kafkaReconnectAttempts)
     IN /\ Retriable(kind) => calls[p].attempts >= kafkaRetries
        /\ calls' = [calls EXCEPT ![p] = caught.call]
        /\ kafkaReconnectAttempts' = caught.reconnectAttempts
        /\ IF caught.call.status = "raised" THEN Resumes(caught.call)
           ELSE Awaits
  /\ requestQueue' = Tail(requestQueue)
  /\ errorCount' = errorCount + 1
  /\ UNCHANGED <<kafkaConnected, publishCount, shutdownPhase, kafkaLog>>
  /\ UNCHANGED serviceRest
  /\ UNCHANGED <<senderVars, sessionVars, listenerVars, validatorVars>>

\* The timer of handleConnectionError of call p fires: producer.disconnect()
\* runs the 'producer.disconnect' handler.
BackoffElapses(p) ==
  /\ calls[p].status = "backoff"
  /\ pubLastOp' = "BackoffElapses"
  /\ calls' = [calls EXCEPT ![p].status = "reconnecting"]
  /\ kafkaConnected' = FALSE
  /\ UNCHANGED <<publishCount, errorCount, kafkaReconnectAttempts,
                 connectPhase, shutdownPhase, requestQueue, kafkaLog>>
  /\ UNCHANGED <<senderVars, serverVars, listenerVars, validatorVars,
                 serviceVars>>

\* producer.connect() of handleConnectionError of call p succeeds (the
\* 'producer.connect' handler runs) or fails (logged); handleConnectionError
\* returns and publishTick throws KAFKA_PUBLISH_ERROR.
ReconnectEnds(p, ok) ==
  /\ calls[p].status = "reconnecting"
  /\ pubLastOp' = "ReconnectEnds"
  /\ kafkaConnected' = (ok \/ kafkaConnected)
  /\ kafkaReconnectAttempts' = IF ok THEN 0 ELSE kafkaReconnectAttempts
  /\ LET call == [calls[p] EXCEPT !.status = "raised",
                                  !.raised = "KAFKA_PUBLISH_ERROR"]
     IN /\ calls' = [calls EXCEPT ![p] = call]
        /\ Resumes(call)
  /\ UNCHANGED <<publishCount, errorCount, shutdownPhase, requestQueue,
                 kafkaLog>>
  /\ UNCHANGED serviceRest
  /\ UNCHANGED <<senderVars, sessionVars, listenerVars, validatorVars>>

\* shutdown() is called by the owner of the publisher, after the connect()
\* it awaited has returned or thrown: it awaits its timer of 1000 ms.
Shutdown ==
  /\ shutdownPhase = "none"
  /\ servicePhase = "new"
  /\ connectPhase \in {"ready", "failed"}
  /\ pubLastOp' = "Shutdown"
  /\ shutdownPhase' = "grace"
  /\ UNCHANGED <<kafkaConnected, publishCount, errorCount,
                 kafkaReconnectAttempts, connectPhase, calls, requestQueue,
                 kafkaLog>>
  /\ UNCHANGED <<senderVars, serverVars, listenerVars, validatorVars,
                 serviceVars>>

\* The timer of shutdown() fires: disconnect() disconnects the producer and
\* clears this.isConnected; shutdown() returns, and the stop() that awaited
\* it stops the metrics exporter and returns.
GraceElapses ==
  /\ shutdownPhase = "grace"
  /\ pubLastOp' = "GraceElapses"
  /\ shutdownPhase' = "done"
  /\ kafkaConnected' = FALSE
  /\ servicePhase' = IF servicePhase = "stopping" THEN "stopped"
                     ELSE servicePhase
  /\ UNCHANGED <<publishCount, errorCount, kafkaReconnectAttempts,
                 connectPhase, calls, requestQueue, kafkaLog>>
  /\ UNCHANGED <<messagesProcessed, messagesPublished, publishErrors,
                 serviceRest>>
  /\ UNCHANGED <<senderVars, serverVars, listenerVars, validatorVars>>

\* What the producer does with its requests, and the reconnects they cause.
SendStep ==
  \/ SendDelivered
  \/ SendRetried
  \/ \E kind \in SendErrors : SendRejects(kind)
  \/ \E p \in 1..Len(calls) : BackoffElapses(p)
  \/ \E p \in 1..Len(calls), ok \in BOOLEAN : ReconnectEnds(p, ok)

\* A KafkaPublisher whose owner connects it, publishes ticks and shuts it
\* down.
PublisherNext ==
  \/ KafkaConnect
  \/ ProducerConnects
  \/ ProducerConnectFails
  \/ \E key \in TickKeys : PublishTickCall(key)
  \/ SendStep
  \/ Shutdown
  \/ GraceElapses

(***************************************************************************)
(* IngestorService                                                         *)
(*                                                                         *)
(* start() and stop() are sequences of awaits; servicePhase is the await   *)
(* the service is at: "new", "connecting" (kafkaPublisher.connect()),      *)
(* "metrics" (metricsExporter.start()), "tcp" (tcpServer.start()),         *)
(* "running", "failed" (start() threw), "stopping" (tcpServer.stop() and   *)
(* kafkaPublisher.shutdown()) and "stopped".                               *)
(***************************************************************************)

\* Constructor and field initialisers.
ServiceInit ==
  /\ isRunning = FALSE
  /\ sequenceCounter = 0
  /\ messagesProcessed = 0
  /\ messagesPublished = 0
  /\ publishErrors = 0
  /\ servicePhase = "new"
  /\ handled = <<>>
  /\ errorReplies = [c \in ClientIds |-> 0]
  /\ tcpStopPhase = "none"
  /\ connectionsAtStop = 0

\* start() is called: it awaits kafkaPublisher.connect().
ServiceStart ==
  /\ servicePhase = "new"
  /\ connectPhase = "none"
  /\ pubLastOp' = "Connect"
  /\ servicePhase' = "connecting"
  /\ connectPhase' = "connecting"
  /\ UNCHANGED <<kafkaConnected, publishCount, errorCount,
                 kafkaReconnectAttempts, shutdownPhase, calls, requestQueue,
                 kafkaLog>>
  /\ UNCHANGED <<messagesProcessed, messagesPublished, publishErrors,
                 serviceRest>>
  /\ UNCHANGED <<senderVars, serverVars, listenerVars, validatorVars>>

\* metricsExporter.start() resolves: start() calls tcpServer.start() and
\* awaits it.
MetricsStarted ==
  /\ servicePhase = "metrics"
  /\ servicePhase' = "tcp"
  /\ lsnLastOp' = "StartService"
  /\ srvHandle' = Start(isListening, srvHandle).handle
  /\ UNCHANGED <<isListening, restartTimers, listenFailures, listenerErrors,
                 everBound, restartFailed>>
  /\ UNCHANGED <<messagesProcessed, messagesPublished, publishErrors,
                 serviceRest>>
  /\ UNCHANGED <<senderVars, serverVars, validatorVars, publisherVars>>

\* metricsExporter.start() rejects (its port is taken): start() throws.
MetricsStartFails ==
  /\ servicePhase = "metrics"
  /\ servicePhase' = "failed"
  /\ UNCHANGED <<messagesProcessed, messagesPublished, publishErrors,
                 serviceRest>>
  /\ UNCHANGED <<senderVars, serverVars, listenerVars, validatorVars,
                 publisherVars>>

\* tcpServer.start() has resolved: isRunning = true, start() returns.
StartReturns ==
  /\ servicePhase = "tcp"
  /\ isListening
  /\ servicePhase' = "running"
  /\ isRunning' = TRUE
  /\ UNCHANGED <<sequenceCounter, messagesProcessed, messagesPublished,
                 publishErrors, handled, errorReplies, tcpStopPhase,
                 connectionsAtStop>>
  /\ UNCHANGED <<senderVars, serverVars, listenerVars, validatorVars,
                 publisherVars>>

\* The records of the service specifications: an accepted tick, a line of
\* five fields, and a tick whose bid is above its ask.
PipelineMessages ==
  {Join(<<<<"A", "B">>, ToString(10), ToString(QuoteClock), <<>>, <<>>, <<>>>>),
   Join(<<<<"A", "B">>, ToString(10), ToString(QuoteClock), <<>>, <<>>>>),
   Join(<<<<"A", "B">>, ToString(10), ToString(QuoteClock), <<>>, ToString(12),
          ToString(10)>>)}

\* Date.now() does not advance between two records: their sequence ids
\* differ by the counter only.
PipelineClocks == {QuoteClock}

\* A message handler that throws when the record is rejected.
MessageHandlerThrowsOnRejection(res) == ~res.isValid

\* Whether the call this.messageHandler(rawMessage) of TcpServer.handleMessage
\* throws.  The handler is IngestorService.handleMessage, an async function
\* whose whole body is a try block: the call returns a promise whatever the
\* validation result res is.
MessageHandlerThrows(res) == FALSE

\* handleValidationFailure that also drops the session of the record.
HandleValidationFailureEndsSession(c, errors) ==
  /\ messagesFailed' = messagesFailed + 1
  /\ validationErrors' = validationErrors + Len(errors)
  /\ clients' = clients \ {c}
  /\ connPhase' = [connPhase EXCEPT ![c] = "destroyed"]

\* handleValidationFailure(rawMessage, errors): one more failed message and
\* one more validation error per error; the session of the record is left
\* as it is.
HandleValidationFailure(c, errors) ==
  /\ messagesFailed' = messagesFailed + 1
  /\ validationErrors' = validationErrors + Len(errors)
  /\ UNCHANGED <<clients, connPhase>>

\* enrichTick that leaves the counter as it is.
EnrichTickKeepsCounter(tick, clientId, now, counter) ==
  [ric |-> tick.ric, clientId |-> clientId, counter |-> counter,
   sequenceId |-> ToString(now) \o <<"-">> \o ToString(counter)]

\* enrichTick(tick, rawMessage) at time now with this.sequenceCounter =
\* counter: the counter is incremented, and the sequence id is
\* `${Date.now()}-${this.sequenceCounter}`.
EnrichTick(tick, clientId, now, counter) ==
  [ric |-> tick.ric, clientId |-> clientId, counter |-> counter + 1,
   sequenceId |-> ToString(now) \o <<"-">> \o ToString(counter + 1)]

\* A record of session c is framed at time now: TcpServer.handleMessage
\* counts it and calls the message handler, IngestorService.handleMessage,
\* which runs up to its first await: it counts the record and validates it;
\* a rejected record goes to handleValidationFailure; an accepted one is
\* enriched and given to publishTick, and if that throws at once,
\* handleProcessingError runs.  An error reply is written to the socket only
\* if the call of the handler throws.
HandleMessage(c, raw, now) ==
  LET out == ValidateMessage(raw, now, lastPrices, strictMode)
      res == out.result
      accepted == res.isValid /\ "tick" \in DOMAIN res
      tick == EnrichTick(res.tick, c, now, sequenceCounter)
      pub == PublishTick(tick.ric, FALSE, Len(handled) + 1, kafkaConnected,
                         kafkaReconnectAttempts)
  IN
  /\ Len(handled) < MaxRecords
  /\ c \in clients
  /\ connPhase[c] = "open"
  /\ srvLastOp' = <<"HandleMessage", c>>
  /\ messageCount' = [messageCount EXCEPT ![c] = @ + 1]
  /\ totalMessages' = totalMessages + 1
  /\ forwarded' = [forwarded EXCEPT ![c] = Append(@, raw)]
  /\ errorReplies' = [errorReplies EXCEPT
                        ![c] = IF MessageHandlerThrows(res) THEN @ + 1 ELSE @]
  /\ messagesReceived' = messagesReceived + 1
  /\ rawMessage' = raw
  /\ clock' = now
  /\ result' = res
  /\ lastPrices' = out.lastPrices
  /\ warned' = out.warned
  /\ UNCHANGED sentTick
  /\ IF ~accepted
     THEN /\ HandleValidationFailure(c, res.errors)
          /\ handled' = Append(handled,
                               [conn |-> c, raw |-> raw, accepted |-> FALSE,
                                counter |-> 0, sequenceId |-> <<>>,
                                call |-> 0])
          /\ UNCHANGED <<sequenceCounter, publishErrors, calls, requestQueue,
                         errorCount, kafkaReconnectAttempts, pubLastOp>>
     ELSE /\ sequenceCounter' = tick.counter
          /\ handled' = Append(handled,
                               [conn |-> c, raw |-> raw, accepted |-> TRUE,
                                counter |-> tick.counter,
                                sequenceId |-> tick.sequenceId,
                                call |-> Len(calls) + 1])
          /\ pubLastOp' = "PublishTick"
          /\ calls' = pub.calls
          /\ requestQueue' = pub.requestQueue
          /\ errorCount' = pub.errorCount
          /\ kafkaReconnectAttempts' = pub.reconnectAttempts
          /\ IF pub.call.status = "raised"
             THEN HandleProcessingError(pub.call.raised)
             ELSE UNCHANGED <<messagesFailed, publishErrors>>
          /\ UNCHANGED <<validationErrors, clients, connPhase>>
  /\ UNCHANGED <<lineBuffer, totalConnections, connErrored, connEnded,
                 received, disconnectLog>>
  /\ UNCHANGED <<kafkaConnected, publishCount, connectPhase, shutdownPhase,
                 kafkaLog>>
  /\ UNCHANGED <<isRunning, messagesProcessed, messagesPublished,
                 servicePhase, tcpStopPhase, connectionsAtStop>>
  /\ UNCHANGED <<senderVars, listenerVars, strictMode>>

\* stop() is called while the service runs: isRunning = false, and
\* tcpServer.stop() calls end('Server shutting down\n') on the socket of
\* every session and sets its timer of 1000 ms.
ServiceStop ==
  /\ isRunning
  /\ servicePhase = "running"
  /\ isRunning' = FALSE
  /\ servicePhase' = "stopping"
  /\ tcpStopPhase' = "waiting"
  /\ connectionsAtStop' = totalConnections
  /\ connEnded' = connEnded \cup clients
  /\ srvLastOp' = <<"Stop", 0>>
  /\ UNCHANGED <<clients, messageCount, lineBuffer, totalConnections,
                 totalMessages, messagesReceived, messagesFailed,
                 validationErrors, connPhase, connErrored, received, forwarded,
                 disconnectLog>>
  /\ UNCHANGED <<sequenceCounter, messagesProcessed, messagesPublished,
                 publishErrors, handled, errorReplies>>
  /\ UNCHANGED <<senderVars, listenerVars, validatorVars, publisherVars>>

\* The timer of tcpServer.stop() fires: the sockets of the sessions that are
\* left are destroyed, this.clients is cleared, and server.close() makes the
\* net.Server stop accepting connections.
StopTimerFires ==
  /\ tcpStopPhase = "waiting"
  /\ tcpStopPhase' = "closing"
  /\ connPhase' = [c \in ClientIds |->
                     IF c \in clients /\ connPhase[c] = "open"
                     THEN "destroyed" ELSE connPhase[c]]
  /\ clients' = {}
  /\ srvHandle' = IF srvHandle = "listening" THEN "closing" ELSE srvHandle
  /\ srvLastOp' = <<"StopTimerFires", 0>>
  /\ lsnLastOp' = "StopTimerFires"
  /\ UNCHANGED <<messageCount, lineBuffer, totalConnections, totalMessages,
                 messagesReceived, messagesFailed, validationErrors,
                 connErrored, connEnded, received, forwarded, disconnectLog>>
  /\ UNCHANGED <<isListening, restartTimers, listenFailures, listenerErrors,
                 everBound, restartFailed>>
  /\ UNCHANGED <<isRunning, sequenceCounter, messagesProcessed,
                 messagesPublished, publishErrors, servicePhase, handled,
                 errorReplies, connectionsAtStop>>
  /\ UNCHANGED <<senderVars, validatorVars, publisherVars>>

\* Every connection of the closing net.Server has ended: 'close' runs the
\* handler of line 63 and the callback of server.close(); tcpServer.stop()
\* resolves, and stop() calls kafkaPublisher.shutdown(), which awaits its
\* timer.
ServerCloses ==
  /\ tcpStopPhase = "closing"
  /\ \A c \in ClientIds : connPhase[c] \in {"none", "closed"}
  /\ tcpStopPhase' = "stopped"
  /\ isListening' = FALSE
  /\ srvHandle' = "none"
  /\ lsnLastOp' = "ServerCloses"
  /\ shutdownPhase' = IF shutdownPhase = "none" THEN "grace" ELSE shutdownPhase
  /\ pubLastOp' = "Shutdown"
  /\ UNCHANGED <<restartTimers, listenFailures, listenerErrors, everBound,
                 restartFailed>>
  /\ UNCHANGED <<kafkaConnected, publishCount, errorCount,
                 kafkaReconnectAttempts, connectPhase, calls, requestQueue,
                 kafkaLog>>
  /\ UNCHANGED <<isRunning, sequenceCounter, messagesProcessed,
                 messagesPublished, publishErrors, servicePhase, handled,
                 errorReplies, connectionsAtStop>>
  /\ UNCHANGED <<senderVars, serverVars, validatorVars>>

\* A listening server accepts connections once the start() that awaited
\* 'listening' has returned.
Accepting == srvHandle = "listening" /\ servicePhase # "tcp"

\* The sessions `ids` of a listening server and the records they deliver.
RecordStep(ids) ==
  \/ (Accepting /\ HandleNewConnection(ids))
  \/ \E c \in ids : SocketClose(c)
  \/ \E c \in ids, raw \in PipelineMessages, now \in PipelineClocks :
       HandleMessage(c, raw, now)

\* The service from start() on: the publisher connects, the listener starts,
\* records arrive on two connections and are published.
PipelineNext ==
  \/ ServiceStart
  \/ ProducerConnects
  \/ ProducerConnectFails
  \/ SendStep
  \/ MetricsStarted
  \/ MetricsStartFails
  \/ ListenSucceeds
  \/ StartReturns
  \/ RecordStep({1, 2})

\* The timer of startMetricsReporting fires while the service runs: report()
\* overwrites three of the service's counters with those of the TcpServer
\* and of the KafkaPublisher (activeConnections and totalConnections of the
\* metrics are not part of the model), and sets its timer again.
MetricsReport ==
  /\ isRunning
  /\ servicePhase = "running"
  /\ messagesReceived' = totalMessages
  /\ messagesPublished' = publishCount
  /\ publishErrors' = errorCount
  /\ srvLastOp' = <<"MetricsReport", 0>>
  /\ UNCHANGED <<clients, messageCount, lineBuffer, totalConnections,
                 totalMessages, messagesFailed, validationErrors, connPhase,
                 connErrored, connEnded, received, forwarded, disconnectLog>>
  /\ UNCHANGED <<isRunning, sequenceCounter, messagesProcessed, servicePhase,
                 handled, errorReplies, tcpStopPhase, connectionsAtStop>>
  /\ UNCHANGED <<senderVars, listenerVars, validatorVars, publisherVars>>

\* Two accepted ticks of one instrument at different prices.
TrackingMessages ==
  {Join(<<<<"A", "B">>, ToString(price), ToString(QuoteClock), <<>>, <<>>,
          <<>>>>) : price \in {10, 11}}

\* The service with one connection that sends ticks of one instrument at
\* changing prices.
TrackingNext ==
  \/ ServiceStart
  \/ ProducerConnects
  \/ SendStep
  \/ MetricsStarted
  \/ ListenSucceeds
  \/ StartReturns
  \/ (Accepting /\ HandleNewConnection({1}))
  \/ \E raw \in TrackingMessages, now \in PipelineClocks :
       HandleMessage(1, raw, now)

\* The service of PipelineNext with one connection and the periodic report.
ReportNext ==
  \/ ServiceStart
  \/ ProducerConnects
  \/ ProducerConnectFails
  \/ SendStep
  \/ MetricsStarted
  \/ MetricsStartFails
  \/ ListenSucceeds
  \/ StartReturns
  \/ RecordStep({1})
  \/ MetricsReport

\* The service from start() to the end of stop(), with a publisher and a
\* listener that do not fail.
ShutdownNext ==
  \/ ServiceStart
  \/ ProducerConnects
  \/ SendDelivered
  \/ MetricsStarted
  \/ ListenSucceeds
  \/ StartReturns
  \/ (Accepting /\ HandleNewConnection(ClientIds))
  \/ \E c \in ClientIds : SocketClose(c)
  \/ ServiceStop
  \/ StopTimerFires
  \/ ServerCloses
  \/ GraceElapses

\* SIGINT or SIGTERM arrives while isRunning is false, during start() or
\* during an earlier stop(): the handler of setupGracefulShutdown awaits
\* stop(), which returns at its first line, and calls process.exit(0).
SignalWhileNotRunning ==
  /\ ~isRunning
  /\ servicePhase \in {"connecting", "metrics", "tcp", "stopping"}
  /\ servicePhase' = "exited"
  /\ UNCHANGED <<messagesProcessed, messagesPublished, publishErrors,
                 serviceRest>>
  /\ UNCHANGED <<senderVars, serverVars, listenerVars, validatorVars,
                 publisherVars>>

\* The stop() that the signal handler awaited has returned: the handler
\* calls process.exit(0).
ProcessExits ==
  /\ servicePhase = "stopped"
  /\ servicePhase' = "exited"
  /\ UNCHANGED <<messagesProcessed, messagesPublished, publishErrors,
                 serviceRest>>
  /\ UNCHANGED <<senderVars, serverVars, listenerVars, validatorVars,
                 publisherVars>>

\* The service of ShutdownNext whose stop() is called by the handler of
\* SIGINT and SIGTERM, until the process exits.
SignalNext ==
  \/ (servicePhase # "exited" /\ ShutdownNext)
  \/ SignalWhileNotRunning
  \/ ProcessExits

(***************************************************************************)
(* Claims about the IngestorService and the KafkaPublisher                 *)
(***************************************************************************)

\* The lines that a validator which has seen nothing accepts.
ValidLines ==
  {raw \in PipelineMessages :
     \E now \in PipelineClocks :
       ValidateMessage(raw, now, EmptyMap, FALSE).result.isValid}

\* The step handles a record or ends the publish of one.
RecordTouched ==
  \/ handled' # handled
  \/ \E p \in 1..Len(calls) :
       /\ calls[p].record # 0
       /\ calls'[p].status # calls[p].status
       /\ calls'[p].status \in {"resolved", "raised"}

\* C21: handling a record, and the end of its publish, whether it succeeds
\* or fails, leaves every session, every socket, the listener and the
\* service as they are; and every valid line that arrives, also after
\* failed records of the same connection, is accepted, sequenced and given
\* to publishTick.
C21_RecordFailureKeepsSession ==
  /\ [](\A j \in 1..Len(handled) :
          handled[j].raw \in ValidLines =>
            /\ handled[j].accepted
            /\ handled[j].counter >= 1
            /\ handled[j].call \in 1..Len(calls)
            /\ calls[handled[j].call].record = j)
  /\ [][RecordTouched =>
          /\ clients' = clients
          /\ connPhase' = connPhase
          /\ connEnded' = connEnded
          /\ isRunning' = isRunning
          /\ servicePhase' = servicePhase
          /\ isListening' = isListening
          /\ srvHandle' = srvHandle]_vars

\* A record whose publish raised, then, on the same connection, which is
\* still a session, a record that was published; and a rejected record.
C21_Witness ==
  /\ \E i, j \in 1..Len(handled) :
       /\ i < j
       /\ handled[i].conn = handled[j].conn
       /\ handled[i].accepted
       /\ calls[handled[i].call].status = "raised"
       /\ handled[j].accepted
       /\ calls[handled[j].call].status = "resolved"
       /\ handled[j].conn \in clients
  /\ isRunning

C23_SequenceIdsUniqueAndIncreasing ==
  /\ \A i, j \in 1..Len(handled) :
       (i < j /\ handled[i].accepted /\ handled[j].accepted) =>
         /\ handled[i].sequenceId # handled[j].sequenceId
         /\ handled[i].counter < handled[j].counter
  /\ \A j \in 1..Len(handled) :
       handled[j].accepted =>
         /\ handled[j].counter \in 1..sequenceCounter
         /\ \E now \in PipelineClocks :
              handled[j].sequenceId =
                ToString(now) \o <<"-">> \o ToString(handled[j].counter)

\* Two records of different connections were enriched in the same
\* millisecond.
C23_Witness ==
  \E i, j \in 1..Len(handled) :
    /\ i < j
    /\ handled[i].conn # handled[j].conn
    /\ handled[i].accepted
    /\ handled[j].accepted
    /\ SubSeq(handled[i].sequenceId, 1, 10) = SubSeq(handled[j].sequenceId, 1, 10)

\* The records of connection c in the order handleMessage took them.
HandledOf(c) == SelectSeq(handled, LAMBDA h : h.conn = c)

\* C24: on every connection the records were validated in the order their
\* lines were framed, and the accepted ones were sequenced and given to
\* publishTick in that order: the publishTick calls made for one connection
\* are in the order of its records, each accepted record has its own call,
\* and counters follow the order too, whatever calls are still in flight.
C24_PublishCallsInFramingOrder ==
  /\ \A c \in ClientIds :
       [k \in 1..Len(HandledOf(c)) |-> HandledOf(c)[k].raw] = forwarded[c]
  /\ \A j \in 1..Len(handled) :
       handled[j].accepted =>
         /\ handled[j].call \in 1..Len(calls)
         /\ calls[handled[j].call].record = j
  /\ \A p, q \in 1..Len(calls) :
       (/\ p < q
        /\ calls[p].record # 0
        /\ calls[q].record # 0
        /\ handled[calls[p].record].conn = handled[calls[q].record].conn) =>
         /\ calls[p].record < calls[q].record
         /\ handled[calls[p].record].counter < handled[calls[q].record].counter

\* A record was given to publishTick while the publish of an earlier record
\* of its connection was still in flight.
C24_Witness ==
  \E i, j \in 1..Len(handled) :
    /\ i < j
    /\ handled[i].conn = handled[j].conn
    /\ handled[i].accepted
    /\ handled[j].accepted
    /\ calls[handled[i].call].status = "sending"
    /\ calls[handled[j].call].status = "sending"

\* C25: two ticks of one key that are both in the log are there in the
\* order of their publishTick calls.
C25_LogInCallOrderPerKey ==
  \A a, b \in 1..Len(kafkaLog) :
    (a < b /\ calls[kafkaLog[a]].key = calls[kafkaLog[b]].key) =>
      kafkaLog[a] < kafkaLog[b]

\* The publishTick calls made for records, by outcome.
RecordsWhoseCall(status) ==
  {j \in 1..Len(handled) :
     handled[j].accepted /\ calls[handled[j].call].status = status}

\* What a call may still do: send again while retries are left, wait for
\* the timer of handleConnectionError, reconnect.
Rank(call) ==
  CASE call.status = "sending" -> 3 + kafkaRetries - call.attempts
    [] call.status = "backoff" -> 2
    [] call.status = "reconnecting" -> 1
    [] OTHER -> 0

FailsForGood(p) ==
  /\ calls[p].error = "none"
  /\ calls'[p].error \notin {"none", "network", "timeout"}

\* C27: the step in which a call fails with an error that is not transient
\* raises KAFKA_PUBLISH_ERROR in that same step, without one more send, a
\* reconnect attempt, a delay or a change of the connection; and only calls
\* that failed with a network or timeout error are ever in the backoff path.
C27_PermanentFailureRaisedAtOnce ==
  /\ [](\A p \in 1..Len(calls) :
          (calls[p].backedOff \/ calls[p].status \in {"backoff", "reconnecting"})
            => calls[p].error \in {"network", "timeout"})
  /\ [](\A p \in 1..Len(calls) :
          calls[p].error \notin {"none", "network", "timeout"} =>
            /\ calls[p].status = "raised"
            /\ calls[p].delay = 0)
  /\ [][\A p \in 1..Len(calls) :
          FailsForGood(p) =>
            /\ calls'[p].status = "raised"
            /\ calls'[p].attempts = calls[p].attempts
            /\ kafkaReconnectAttempts' = kafkaReconnectAttempts
            /\ kafkaConnected' = kafkaConnected
            /\ \A a \in 1..Len(requestQueue') : requestQueue'[a] # p]_vars

\* The publish of one record failed with a message the broker refuses and
\* raised at once, while that of another is waiting out a connection error.
C27_Witness ==
  \E p, q \in 1..Len(calls) :
    /\ calls[p].record # 0
    /\ calls[p].error = "tooLarge"
    /\ calls[p].status = "raised"
    /\ ~calls[p].backedOff
    /\ calls[q].error \in {"network", "timeout"}
    /\ calls[q].status = "backoff"

\* C28: a publishTick call made once shutdown() has begun is refused: it
\* raises without a send, and its tick never reaches the log.
C28_NoPublishAfterShutdownBegan ==
  \A p \in 1..Len(calls) :
    calls[p].shutdown # "none" =>
      /\ calls[p].status = "raised"
      /\ \A a \in 1..Len(requestQueue) : requestQueue[a] # p
      /\ \A a \in 1..Len(kafkaLog) : kafkaLog[a] # p

\* C29: once TcpServer.stop() has been called, no connection is accepted
\* any more: the count of the connections ever accepted stays what it was
\* at the call, and no session joins this.clients.
C29_NoSessionAfterStopBegan ==
  tcpStopPhase # "none" =>
    /\ totalConnections = connectionsAtStop
    /\ \A c \in clients : c \in connEnded

\* C30: the TCP server is started only by a start() whose connect() has
\* returned, that is after the producer connected and the test message was
\* delivered; a connect() that failed, at the connection or at the test
\* message, makes start() fail with the server never started, so that every
\* record handled was handled after connect() had succeeded.
C30_ListensOnlyAfterConnectSucceeded ==
  /\ [](connectPhase = "ready" =>
          /\ Len(calls) >= 1
          /\ calls[1].test
          /\ calls[1].status = "resolved"
          /\ \E a \in 1..Len(kafkaLog) : kafkaLog[a] = 1)
  /\ []((srvHandle # "none" \/ isListening \/ servicePhase \in {"tcp", "running"})
          => connectPhase = "ready")
  /\ [](connectPhase = "failed" =>
          /\ servicePhase = "failed"
          /\ srvHandle = "none"
          /\ ~isListening
          /\ ~isRunning
          /\ clients = {}
          /\ handled = <<>>)
  /\ [](handled # <<>> => connectPhase = "ready")
  /\ [][\A p \in 1..Len(calls') :
          (p > Len(calls) /\ calls'[p].record # 0) => connectPhase = "ready"]_vars

\* The producer connected but the test message was refused: connect() and
\* with it start() have failed, and no server was started.
C30_Witness ==
  /\ Len(calls) >= 1
  /\ calls[1].test
  /\ calls[1].status = "raised"
  /\ connectPhase = "failed"
  /\ servicePhase = "failed"
  /\ srvHandle = "none"

C32_DisconnectAwaitsSocketThatCanClose ==
  (lastOp = "Disconnect" /\ socket # 0) =>
    sockState[socket] \in {"connecting", "open", "errored"}

\* C33: every message in the log is the tick of a record that was received
\* on a connection and accepted by validation, and no record has two
\* messages in the log.
C33_LogHoldsOnlyClientTicks ==
  /\ \A a \in 1..Len(kafkaLog) :
       /\ calls[kafkaLog[a]].record \in 1..Len(handled)
       /\ handled[calls[kafkaLog[a]].record].accepted
  /\ \A a, b \in 1..Len(kafkaLog) :
       calls[kafkaLog[a]].record = calls[kafkaLog[b]].record => a = b

\* C34: a publishTick call that has just failed because the producer is not
\* connected, with the attempt cap not reached, is in the backoff of
\* handleConnectionError.
C34_NotConnectedStartsReconnect ==
  (/\ pubLastOp = "PublishTick"
   /\ calls[Len(calls)].error = "notConnected"
   /\ kafkaReconnectAttempts < kafkaMaxReconnectAttempts)
    => /\ calls[Len(calls)].backedOff
       /\ calls[Len(calls)].status = "backoff"

\* A call enters the backoff of handleConnectionError in this step.
EntersBackoff(p) ==
  /\ calls'[p].status = "backoff"
  /\ p > Len(calls) \/ calls[p].status # "backoff"

\* A call fails with a connection error in this step.
FailsOnConnection(p) ==
  /\ calls'[p].error \in {"network", "timeout"}
  /\ p > Len(calls) \/ calls[p].error = "none"

\* C35: this.reconnectAttempts never exceeds its cap and falls only to 0,
\* in a step in which the producer connected; the call that makes attempt n
\* waits min(1000 * 2^n, 30000) ms, a delay that for the attempts 1 to 10
\* never decreases from one attempt to the next and never exceeds 30000 ms;
\* and a connection error met at the cap is raised with no attempt counted,
\* no delay and no disconnect or connect of the producer.
C35_ReconnectCounterAndDelay ==
  /\ [](kafkaReconnectAttempts \in 0..kafkaMaxReconnectAttempts)
  /\ [](\A n \in 1..kafkaReconnectCap :
          /\ ReconnectDelay(n) =
               (IF 1000 * (2 ^ n) < 30000 THEN 1000 * (2 ^ n) ELSE 30000)
          /\ ReconnectDelay(n) <= 30000
          /\ n < kafkaReconnectCap => ReconnectDelay(n) <= ReconnectDelay(n + 1))
  /\ [][kafkaReconnectAttempts' < kafkaReconnectAttempts =>
          /\ kafkaReconnectAttempts' = 0
          /\ kafkaConnected'
          /\ pubLastOp' \in {"ProducerConnects", "ReconnectEnds"}]_vars
  /\ [][\A p \in 1..Len(calls') :
          /\ EntersBackoff(p) =>
               /\ kafkaReconnectAttempts' = kafkaReconnectAttempts + 1
               /\ calls'[p].delay = ReconnectDelay(kafkaReconnectAttempts')
               /\ calls'[p].delay <= 30000
          /\ (FailsOnConnection(p)
                /\ kafkaReconnectAttempts >= kafkaMaxReconnectAttempts) =>
               /\ calls'[p].status = "raised"
               /\ ~calls'[p].backedOff
               /\ calls'[p].delay = 0
               /\ kafkaReconnectAttempts' = kafkaReconnectAttempts
               /\ kafkaConnected' = kafkaConnected]_vars

\* One call is waiting out its attempt, the one that reached the cap, while
\* the publish of a record that failed on the connection after it was raised
\* without a delay.
C35_Witness ==
  /\ kafkaReconnectAttempts = kafkaMaxReconnectAttempts
  /\ \E p, q \in 1..Len(calls) :
       /\ p < q
       /\ calls[p].backedOff
       /\ calls[p].delay = ReconnectDelay(kafkaMaxReconnectAttempts)
       /\ calls[q].record # 0
       /\ calls[q].error \in {"network", "timeout"}
       /\ calls[q].status = "raised"
       /\ ~calls[q].backedOff

\* C36: isConnected is true only while the socket this.socket refers to has
\* reported 'connect' and neither 'error' nor 'close' since.
C36_ConnectedMeansCurrentSocketOpen ==
  isConnected => (socket # 0 /\ sockState[socket] = "open")

\* The records handleMessage rejected at validation.
RecordsRejected == {j \in 1..Len(handled) : ~handled[j].accepted}

\* The accepted records whose publishTick call has neither resolved nor
\* raised yet.
RecordsInFlight ==
  {j \in 1..Len(handled) :
     handled[j].accepted
       /\ calls[handled[j].call].status \notin {"resolved", "raised"}}

\* C37: messagesReceived counts the records handed to handleMessage,
\* messagesProcessed those whose publish resolved, and messagesFailed those
\* rejected at validation or whose publish raised; so each record is
\* counted once in one of the two as soon as it is no longer in flight, and
\* with none in flight messagesReceived = messagesProcessed + messagesFailed.
C37_EachRecordCountedOnce ==
  /\ messagesReceived = Len(handled)
  /\ messagesProcessed = Cardinality(RecordsWhoseCall("resolved"))
  /\ messagesFailed =
       Cardinality(RecordsRejected) + Cardinality(RecordsWhoseCall("raised"))
  /\ messagesReceived =
       messagesProcessed + messagesFailed + Cardinality(RecordsInFlight)
  /\ RecordsInFlight = {} =>
       messagesReceived = messagesProcessed + messagesFailed

\* Two records were handled and none is in flight: one was published, and
\* the publish of the other raised.
C37_Witness ==
  /\ Len(handled) = 2
  /\ RecordsInFlight = {}
  /\ Cardinality(RecordsWhoseCall("resolved")) = 1
  /\ Cardinality(RecordsWhoseCall("raised")) = 1
  /\ messagesReceived = 2

\* The error list holds the error of the deviation rule.
HasDeviationError(errors) ==
  \E i \in 1..Len(errors) : errors[i] = "Suspicious price change"

\* C38: in strict mode a price accepted for an instrument that has a last
\* accepted price P is within the threshold of P and becomes the last
\* accepted price; a rejection leaves the stored prices as they were, so a
\* message for the same instrument at the same price that follows a message
\* rejected for its deviation is rejected too.
C38_StrictConsecutivePricesWithinThreshold ==
  /\ [][(/\ ValidateMessageReturns
         /\ strictMode
         /\ result'.isValid
         /\ result'.tick.ric \in DOMAIN lastPrices) =>
          LET P == lastPrices[result'.tick.ric]
              P2 == result'.tick.price
              distance == IF P2 >= P THEN P2 - P ELSE P - P2
          IN /\ distance * 100 <= maxPriceDeviationPercent * P
             /\ lastPrices'[result'.tick.ric] = P2]_vars
  /\ [][(/\ ValidateMessageReturns
         /\ strictMode
         /\ ~result'.isValid) => lastPrices' = lastPrices]_vars
  /\ [][(/\ ValidateMessageReturns
         /\ strictMode
         /\ clock # 0
         /\ HasDeviationError(result.errors)
         /\ Len(MessageParts(rawMessage')) = 6
         /\ MessageRic(rawMessage') = MessageRic(rawMessage)
         /\ MessageNumber(rawMessage', 2) = MessageNumber(rawMessage, 2)) =>
          /\ ~result'.isValid
          /\ lastPrices' = lastPrices]_vars

\* Strict mode: a price of 10 was rejected for its deviation from the 12
\* stored for the instrument, which stays stored.
C38_Witness ==
  /\ strictMode
  /\ HasDeviationError(result.errors)
  /\ MessageRic(rawMessage) = <<"C", "D">>
  /\ MessageNumber(rawMessage, 2).value = 10
  /\ lastPrices[<<"C", "D">>] = 12

\* The accepted records of an instrument, by their place in `handled`.
AcceptedFor(ric) ==
  {j \in 1..Len(handled) :
     handled[j].accepted /\ MessageRic(handled[j].raw) = ric}

\* The largest number of a set of numbers that is not empty.
Latest(js) == CHOOSE j \in js : \A k \in js : k <= j

\* C39: the last price stored for an instrument is the price of the most
\* recent record of that instrument that passed validation, and none is
\* stored for an instrument without such a record, whatever became of the
\* publishTick calls; a step in which a publish fails changes no stored
\* price.
C39_LastPriceIsLatestAcceptedPrice ==
  /\ [](\A ric \in {<<"A", "B">>, <<"C", "D">>} :
          IF AcceptedFor(ric) = {}
          THEN ric \notin DOMAIN lastPrices
          ELSE /\ ric \in DOMAIN lastPrices
               /\ lastPrices[ric] =
                    MessageNumber(handled[Latest(AcceptedFor(ric))].raw, 2).value)
  /\ [][(\E p \in 1..Len(calls') :
           /\ calls'[p].status = "raised"
           /\ p > Len(calls) \/ calls[p].status # "raised")
        => (handled' = handled => lastPrices' = lastPrices)]_vars
  /\ [][lastPrices' # lastPrices =>
          (Len(handled') = Len(handled) + 1
             /\ handled'[Len(handled')].accepted)]_vars

\* Two ticks of one instrument were accepted, at 10 and then at 11; the
\* publish of the second one raised, and 11 is the price stored.
C39_Witness ==
  /\ Len(handled) = 2
  /\ handled[1].accepted /\ handled[2].accepted
  /\ MessageNumber(handled[1].raw, 2).value = 10
  /\ MessageNumber(handled[2].raw, 2).value = 11
  /\ calls[handled[2].call].status = "raised"
  /\ lastPrices[<<"A", "B">>] = 11

\* C40: when the handler of SIGINT or SIGTERM has called process.exit(0),
\* the TCP server is closed, no session is left and the producer of the
\* publisher is disconnected.
C40_ExitZeroOnlyAfterFullStop ==
  servicePhase = "exited" =>
    /\ srvHandle = "none"
    /\ ~isListening
    /\ clients = {}
    /\ ~kafkaConnected


Init ==
  /\ SenderInit /\ ServerInit /\ ListenerInit /\ ValidatorInit
  /\ PublisherInit /\ ServiceInit

Next ==
  SenderNext \/ ServerNext \/ FramerNext \/ ListenerNext \/ ValidatorNext
    \/ ClockNext \/ CodecNext \/ PublisherNext \/ PipelineNext \/ TrackingNext \/ ReportNext
    \/ ShutdownNext \/ SignalNext

Spec == Init /\ [][Next]_vars

SenderSpec == Init /\ [][SenderNext]_vars

ServerSpec == Init /\ [][ServerNext]_vars

FramerSpec == Init /\ [][FramerNext]_vars

\* The TcpServer with what the server's own sockets are sure to do: a
\* destroyed socket emits 'close'.  A peer is never obliged to act.
ServerFairSpec ==
  ServerSpec /\ \A c \in ClientIds : WF_vars(DestroyedSocketCloses(c))

ListenerSpec == Init /\ [][ListenerNext]_vars

ValidatorSpec == Init /\ [][ValidatorNext]_vars

ClockSpec == Init /\ [][ClockNext]_vars

CodecSpec == Init /\ [][CodecNext]_vars

PublisherSpec == Init /\ [][PublisherNext]_vars

PipelineSpec == Init /\ [][PipelineNext]_vars

TrackingSpec == Init /\ [][TrackingNext]_vars

ReportSpec == Init /\ [][ReportNext]_vars

SignalSpec == Init /\ [][SignalNext]_vars

ShutdownSpec == Init /\ [][ShutdownNext]_vars

====
